---- MODULE Spec2Model ----
(***************************************************************************)
(* State-machine model of the slot_machine Anchor program                  *)
(* (programs/slot_machine/src/lib.rs).                                      *)
(*                                                                         *)
(* Conventions.                                                            *)
(*  - A Rust Result is a record with an "err" field; err = "Ok" is success.*)
(*  - An Option<T> is a sequence of length 0 (None) or 1 (Some(x)).        *)
(*  - Rust arrays [T; 6] are 1-based tuples: symbol i is component i + 1.  *)
(*  - Public keys are strings.  A 32-byte hash / oracle value is a number; *)
(*    for hashes only the two bytes pick_symbol consumes are kept.         *)
(*  - u64 / i64 are narrowed to U64_MAX / I64_MAX so that the checked      *)
(*    arithmetic of the program can actually fail within TLC's integers.   *)
(*  - A Solana transaction is atomic: an instruction that returns an error *)
(*    commits nothing, however many writes or transfers preceded it.       *)
(*  - The model follows one life of the GameState account, from            *)
(*    initialize to close_game.                                            *)
(***************************************************************************)
EXTENDS Integers, Sequences, FiniteSets, TLC

\* ------------------------------------------------------------------ widths
\* Largest value of the model's u64 / i64 / u8 / u16 words.
U64_MAX == 2097151
I64_MAX == 1048575
U8_MAX  == 255
U16_MAX == 65535

SYMBOLS == 6
MAX_AGENT_COUNT == 2

\* ------------------------------------------------------------------ hashing
\* hashv: a deterministic mixing function standing for SHA-256.  Only the
\* first 16 bits of the digest are ever read (pick_symbol), so the digest is
\* a number in 0 .. U16_MAX.
TagNum(tag) ==
    CASE tag = "SLOT_SETTLE" -> 1
      [] tag = "SLOT_PLAY"   -> 2
      [] tag = "SLOT_RNG"    -> 3

Mix(h, x) == ((((h + x) % (U16_MAX + 1)) * 25173) + 13849) % (U16_MAX + 1)

RECURSIVE HashFold(_, _)
HashFold(h, xs) ==
    IF xs = <<>> THEN h ELSE HashFold(Mix(h, Head(xs)), Tail(xs))

hashv(tag, xs) == HashFold(Mix(0, TagNum(tag)), xs)

\* Numeric image of a public key inside a hash preimage.
PubkeyBytes(p) ==
    CASE p = "P1" -> 11
      [] p = "P2" -> 12
      [] OTHER    -> 0

\* lib.rs derive_seed: missing optional fields serialise as their zero value.
derive_seed(vrf, player, nonce, slot, after) ==
    LET nb == IF nonce = <<>> THEN 0 ELSE nonce[1]
        sb == IF slot = <<>> THEN 0 ELSE slot[1]
        p  == IF player = <<>> THEN 0 ELSE PubkeyBytes(player[1])
    IN  IF after # <<>>
        THEN hashv("SLOT_SETTLE", <<vrf, after[1], p, nb, sb>>)
        ELSE hashv("SLOT_PLAY", <<vrf, p, nb, sb>>)

next_seed(s, c) == hashv("SLOT_RNG", <<s, c>>)

\* ------------------------------------------------------------------ sampler
RECURSIVE SumSeq(_)
SumSeq(w) == IF w = <<>> THEN 0 ELSE Head(w) + SumSeq(Tail(w))

\* The walk of pick_symbol's for loop, from (1-based) position i.
RECURSIVE PickWalk(_, _, _)
PickWalk(i, r, w) ==
    IF i > Len(w) THEN SYMBOLS - 1
    ELSE IF r < w[i] THEN i - 1
    ELSE PickWalk(i + 1, r - w[i], w)

\* pick_symbol walking with the 16-bit value not reduced by the weight sum
\* (lib.rs 754).
pick_symbol_unreduced(seed, w) ==
    LET sum == SumSeq(w)
    IN  IF sum = 0 THEN [err |-> "InvalidSymbolWeights", sym |-> 0]
        ELSE [err |-> "Ok", sym |-> PickWalk(1, seed % (U16_MAX + 1), w)]

pick_symbol(seed, w) ==
    LET sum == SumSeq(w)
    IN  IF sum = 0 THEN [err |-> "InvalidSymbolWeights", sym |-> 0]
        ELSE [err |-> "Ok", sym |-> PickWalk(1, (seed % (U16_MAX + 1)) % sum, w)]

\* Matches without the third reel (lib.rs 773).
Matches_two_reels(reels, sym) ==
    (IF reels[1] = sym THEN 1 ELSE 0) + (IF reels[2] = sym THEN 1 ELSE 0)

\* ------------------------------------------------------------------ payout
Matches(reels, sym) ==
    (IF reels[1] = sym THEN 1 ELSE 0) + (IF reels[2] = sym THEN 1 ELSE 0)
      + (IF reels[3] = sym THEN 1 ELSE 0)

\* compute_spin_payout's loop from symbol sym on, with running total.
RECURSIVE SpinPayoutFrom(_, _, _, _, _)
SpinPayoutFrom(sym, total, b, reels, s) ==
    IF sym >= SYMBOLS THEN [err |-> "Ok", total |-> total]
    ELSE
      LET bet  == b[sym + 1]
          m    == Matches(reels, sym)
          rate == IF m = 3 THEN s.payout_triple[sym + 1]
                  ELSE IF m = 2 THEN s.payout_double[sym + 1]
                  ELSE 0
          win  == (bet * rate) \div 100
      IN  IF bet = 0 \/ rate = 0 THEN SpinPayoutFrom(sym + 1, total, b, reels, s)
          ELSE IF win > U64_MAX THEN [err |-> "MathOverflow", total |-> 0]
          ELSE IF total + win > U64_MAX THEN [err |-> "MathOverflow", total |-> 0]
          ELSE SpinPayoutFrom(sym + 1, total + win, b, reels, s)

compute_spin_payout(b, reels, s) == SpinPayoutFrom(0, 0, b, reels, s)

\* The accumulator of compute_total_payout before its first draw.
SpinStart(seed) ==
    [cur |-> seed, c |-> 0, mul |-> 1, doubles |-> 0, total |-> 0,
     last |-> <<0, 0, 0>>, applied |-> 0, done |-> FALSE, err |-> "Ok"]

SpinFail(a, e) == [a EXCEPT !.done = TRUE, !.err = e]

\* SpinStep without the second break test (lib.rs 823-825).
SpinStep_no_cap(a, bets, s) ==
    LET s1 == next_seed(a.cur, a.c)
        s2 == next_seed(s1, a.c + 1)
        s3 == next_seed(s2, a.c + 2)
        r1 == pick_symbol(s1, s.symbol_weights)
        r2 == pick_symbol(s2, s.symbol_weights)
        r3 == pick_symbol(s3, s.symbol_weights)
        reels  == <<r1.sym, r2.sym, r3.sym>>
        payout == compute_spin_payout(bets, reels, s)
        scaled == payout.total * a.mul
        b == [a EXCEPT !.cur = s3, !.c = a.c + 3, !.last = reels,
                       !.applied = a.mul]
    IN  IF a.c + 3 > U64_MAX THEN SpinFail(a, "MathOverflow")
        ELSE IF r1.err # "Ok" THEN SpinFail(a, r1.err)
        ELSE IF payout.err # "Ok" THEN SpinFail(b, payout.err)
        ELSE IF scaled > U64_MAX \/ a.total + scaled > U64_MAX
             THEN SpinFail(b, "MathOverflow")
        ELSE LET t == [b EXCEPT !.total = a.total + scaled]
             IN  IF ~(\E i \in 1..3 : reels[i] = 5) THEN [t EXCEPT !.done = TRUE]
                 ELSE IF a.mul * 2 > U8_MAX \/ a.doubles + 1 > U8_MAX
                      THEN SpinFail(t, "MathOverflow")
                 ELSE [t EXCEPT !.mul = a.mul * 2, !.doubles = a.doubles + 1]

\* SpinStep mixing the game's nonce into the first seed of a draw.
SpinStep_reads_nonce(a, bets, s) ==
    LET s1 == next_seed(a.cur + s.nonce, a.c)
        s2 == next_seed(s1, a.c + 1)
        s3 == next_seed(s2, a.c + 2)
        r1 == pick_symbol(s1, s.symbol_weights)
        r2 == pick_symbol(s2, s.symbol_weights)
        r3 == pick_symbol(s3, s.symbol_weights)
        reels  == <<r1.sym, r2.sym, r3.sym>>
        payout == compute_spin_payout(bets, reels, s)
        scaled == payout.total * a.mul
        b == [a EXCEPT !.cur = s3, !.c = a.c + 3, !.last = reels,
                       !.applied = a.mul]
    IN  IF a.c + 3 > U64_MAX THEN SpinFail(a, "MathOverflow")
        ELSE IF r1.err # "Ok" THEN SpinFail(a, r1.err)
        ELSE IF payout.err # "Ok" THEN SpinFail(b, payout.err)
        ELSE IF scaled > U64_MAX \/ a.total + scaled > U64_MAX
             THEN SpinFail(b, "MathOverflow")
        ELSE LET t == [b EXCEPT !.total = a.total + scaled]
             IN  IF ~(\E i \in 1..3 : reels[i] = 5) THEN [t EXCEPT !.done = TRUE]
                 ELSE IF a.doubles >= s.max_auto_spins \/ a.mul >= 16
                      THEN [t EXCEPT !.done = TRUE]
                 ELSE IF a.mul * 2 > U8_MAX \/ a.doubles + 1 > U8_MAX
                      THEN SpinFail(t, "MathOverflow")
                 ELSE [t EXCEPT !.mul = a.mul * 2, !.doubles = a.doubles + 1]

\* SpinStep whose chain test admits one more draw (lib.rs 823).
SpinStep_one_more(a, bets, s) ==
    LET s1 == next_seed(a.cur, a.c)
        s2 == next_seed(s1, a.c + 1)
        s3 == next_seed(s2, a.c + 2)
        r1 == pick_symbol(s1, s.symbol_weights)
        r2 == pick_symbol(s2, s.symbol_weights)
        r3 == pick_symbol(s3, s.symbol_weights)
        reels  == <<r1.sym, r2.sym, r3.sym>>
        payout == compute_spin_payout(bets, reels, s)
        scaled == payout.total * a.mul
        b == [a EXCEPT !.cur = s3, !.c = a.c + 3, !.last = reels,
                       !.applied = a.mul]
    IN  IF a.c + 3 > U64_MAX THEN SpinFail(a, "MathOverflow")
        ELSE IF r1.err # "Ok" THEN SpinFail(a, r1.err)
        ELSE IF payout.err # "Ok" THEN SpinFail(b, payout.err)
        ELSE IF scaled > U64_MAX \/ a.total + scaled > U64_MAX
             THEN SpinFail(b, "MathOverflow")
        ELSE LET t == [b EXCEPT !.total = a.total + scaled]
             IN  IF ~(\E i \in 1..3 : reels[i] = 5) THEN [t EXCEPT !.done = TRUE]
                 ELSE IF a.doubles > s.max_auto_spins \/ a.mul >= 16
                      THEN [t EXCEPT !.done = TRUE]
                 ELSE IF a.mul * 2 > U8_MAX \/ a.doubles + 1 > U8_MAX
                      THEN SpinFail(t, "MathOverflow")
                 ELSE [t EXCEPT !.mul = a.mul * 2, !.doubles = a.doubles + 1]

\* SpinStep raising the multiplier by one instead of doubling it (lib.rs 826).
SpinStep_adds_one(a, bets, s) ==
    LET s1 == next_seed(a.cur, a.c)
        s2 == next_seed(s1, a.c + 1)
        s3 == next_seed(s2, a.c + 2)
        r1 == pick_symbol(s1, s.symbol_weights)
        r2 == pick_symbol(s2, s.symbol_weights)
        r3 == pick_symbol(s3, s.symbol_weights)
        reels  == <<r1.sym, r2.sym, r3.sym>>
        payout == compute_spin_payout(bets, reels, s)
        scaled == payout.total * a.mul
        b == [a EXCEPT !.cur = s3, !.c = a.c + 3, !.last = reels,
                       !.applied = a.mul]
    IN  IF a.c + 3 > U64_MAX THEN SpinFail(a, "MathOverflow")
        ELSE IF r1.err # "Ok" THEN SpinFail(a, r1.err)
        ELSE IF payout.err # "Ok" THEN SpinFail(b, payout.err)
        ELSE IF scaled > U64_MAX \/ a.total + scaled > U64_MAX
             THEN SpinFail(b, "MathOverflow")
        ELSE LET t == [b EXCEPT !.total = a.total + scaled]
             IN  IF ~(\E i \in 1..3 : reels[i] = 5) THEN [t EXCEPT !.done = TRUE]
                 ELSE IF a.doubles >= s.max_auto_spins \/ a.mul >= 16
                      THEN [t EXCEPT !.done = TRUE]
                 ELSE IF a.mul * 2 > U8_MAX \/ a.doubles + 1 > U8_MAX
                      THEN SpinFail(t, "MathOverflow")
                 ELSE [t EXCEPT !.mul = a.mul + 1, !.doubles = a.doubles + 1]

\* One iteration of compute_total_payout's loop: three draws, the scaled
\* payout, then the two break tests and the doubling.  "applied" remembers the
\* multiplier the draw was scaled by.
SpinStep(a, bets, s) ==
    LET s1 == next_seed(a.cur, a.c)
        s2 == next_seed(s1, a.c + 1)
        s3 == next_seed(s2, a.c + 2)
        r1 == pick_symbol(s1, s.symbol_weights)
        r2 == pick_symbol(s2, s.symbol_weights)
        r3 == pick_symbol(s3, s.symbol_weights)
        reels  == <<r1.sym, r2.sym, r3.sym>>
        payout == compute_spin_payout(bets, reels, s)
        scaled == payout.total * a.mul
        b == [a EXCEPT !.cur = s3, !.c = a.c + 3, !.last = reels,
                       !.applied = a.mul]
    IN  IF a.c + 3 > U64_MAX THEN SpinFail(a, "MathOverflow")
        ELSE IF r1.err # "Ok" THEN SpinFail(a, r1.err)
        ELSE IF payout.err # "Ok" THEN SpinFail(b, payout.err)
        ELSE IF scaled > U64_MAX \/ a.total + scaled > U64_MAX
             THEN SpinFail(b, "MathOverflow")
        ELSE LET t == [b EXCEPT !.total = a.total + scaled]
             IN  IF ~(\E i \in 1..3 : reels[i] = 5) THEN [t EXCEPT !.done = TRUE]
                 ELSE IF a.doubles >= s.max_auto_spins \/ a.mul >= 16
                      THEN [t EXCEPT !.done = TRUE]
                 ELSE IF a.mul * 2 > U8_MAX \/ a.doubles + 1 > U8_MAX
                      THEN SpinFail(t, "MathOverflow")
                 ELSE [t EXCEPT !.mul = a.mul * 2, !.doubles = a.doubles + 1]

RECURSIVE SpinLoop(_, _, _)
SpinLoop(a, bets, s) ==
    IF a.done THEN a ELSE SpinLoop(SpinStep(a, bets, s), bets, s)

\* Result<(u64, u8, u8, [u8; 3])>
compute_total_payout(seed, bets, s) ==
    LET a == SpinLoop(SpinStart(seed), bets, s)
    IN  [err |-> a.err, total |-> a.total, doubles |-> a.doubles,
         mul |-> a.mul, last |-> a.last]

\* ------------------------------------------------------------------ universe
Players   == {"P1", "P2"}
AgentKeys == {"A1", "A2"}
Handles   == {"H1", "H2"}
\* "SYS" is Pubkey::default() (the system program): not a Switchboard account.
VrfAccounts == {"SYS", "VRF1", "VRF2"}
Mints == {"MINT", "MINT2"}
TokenAccounts == {"POOL", "POOL2", "T_P1", "T_P2", "T_A1", "T_A2", "T_OWNER"}

\* Bounds of the exploration.
MaxSteps  == 3
MaxAdmin  == 1
MaxOracle == 2

\* The environment the program is deployed in.
TickSeconds == 43200
VRF_DATA_LEN == 64
PlayerFunds == 250
AgentLamports == 2000000
GameRent == 1000
InitPool == 150

\* The authority (SPL owner field) of each token account.
TokAuthority(t) ==
    CASE t = "POOL"    -> "GAME"
      [] t = "POOL2"   -> "GAME"
      [] t = "T_P1"    -> "P1"
      [] t = "T_P2"    -> "P2"
      [] t = "T_A1"    -> "A1"
      [] t = "T_A2"    -> "A2"
      [] t = "T_OWNER" -> "OWNER"

VrfOwner(v) == IF v = "SYS" THEN "NativeLoader" ELSE "SWITCHBOARD_V2_PROGRAM_ID"

\* Inputs of the administrative setters.
W_DEFAULT  == <<2500, 2500, 250, 1600, 2150, 1000>>
W_TRIGGER  == <<1, 1, 1, 1, 1, 9995>>
W_ZERO     == <<5000, 5000, 0, 0, 0, 0>>
W_SHORT    == <<2500, 2500, 250, 1600, 2150, 999>>
W_LONG     == <<2500, 2500, 250, 1600, 2150, 1001>>
W_MIXED    == <<5000, 1, 1, 1, 1, 4996>>
WeightInputs == {W_TRIGGER, W_ZERO, W_SHORT, W_LONG}

PT_DEFAULT == <<220, 180, 2000, 360, 450, 0>>
PT_ALT     == <<500, 180, 2000, 360, 450, 300>>
PD_DEFAULT == <<65, 50, 100, 75, 85, 0>>
PD_ALT     == <<0, 0, 0, 0, 0, 0>>

\* Bet vectors offered to play / request_play.
B_ONE == <<100, 0, 0, 0, 0, 0>>
BetInputs ==
    { B_ONE,                         \* valid
      <<0, 0, 0, 0, 0, 0>>,          \* total 0
      <<100, 0, 0, 0, 0, 100>>,      \* trigger slot wagered
      <<0, 0, 0, 0, 0, 100>>,        \* only the trigger slot
      <<100, 99, 0, 0, 0, 0>>,       \* one slot below the default minimum
      <<0, 0, 0, 0, 1, 0>>,          \* below every minimum but 1
      <<U64_MAX, 0, 0, 0, 1, 0>> }   \* total does not fit

\* ------------------------------------------------------------------ state
VARIABLES
    s,         \* GameState account
    open,      \* the GameState account exists (initialize done, not closed)
    pending,   \* PendingPlay accounts, by handle
    tok,       \* SPL token accounts: mint and amount
    lam,       \* lamports of the GameState account, the owner and the agents
    vrf_data,  \* the 32-byte result buffer of each VRF account
    clock,     \* Clock sysvar: unix_timestamp and slot
    steps,     \* number of transactions and environment events so far
    admin_ops, \* number of owner instructions so far
    last,      \* the last transaction or event
    eng,       \* accumulator of a stand-alone compute_total_payout run
    com,       \* a stand-alone apply_agent_commission call: arguments and result
    call       \* a stand-alone pick_symbol or compute_spin_payout call

vars == <<s, open, pending, tok, lam, vrf_data, clock, steps, admin_ops, last, eng, com,
          call>>

NoPending ==
    [init |-> FALSE, player |-> "", player_token_account |-> "",
     pool_token_account |-> "", request_nonce |-> 0, request_slot |-> 0,
     total_bet |-> 0, bets |-> <<0, 0, 0, 0, 0, 0>>, has_room_card |-> FALSE,
     room_card |-> 0, vrf_result_before |-> 0]

\* lib.rs initialize: the GameState written by a successful initialize on a
\* pool token account holding pool_amount.
InitialGameState(pool_amount) ==
    [owner |-> "OWNER", pool_mint |-> "MINT", pool_token_account |-> "POOL",
     total_pool |-> pool_amount, nonce |-> 0, agents |-> <<>>,
     next_room_card |-> 10000, commission_rate |-> 10,
     stake_threshold |-> 1000000, settlement_period |-> 86400,
     vrf |-> "SYS", vrf_result_offset |-> 0,
     symbol_weights |-> W_DEFAULT, payout_triple |-> PT_DEFAULT,
     payout_double |-> PD_DEFAULT, max_auto_spins |-> 5, min_bet |-> 100]

\* The world: everything an instruction reads and, on success, replaces.
InitialWorld(pool_amount) ==
    [s |-> InitialGameState(pool_amount),
     open |-> TRUE,
     pending |-> [h \in Handles |-> NoPending],
     tok |-> [t \in TokenAccounts |->
                [mint |-> "MINT",
                 amount |-> IF t = "POOL" THEN pool_amount
                            ELSE IF t \in {"T_P1", "T_P2"} THEN PlayerFunds
                            ELSE 0]],
     lam |-> [k \in {"GAME", "OWNER"} \cup AgentKeys |->
                 IF k = "GAME" THEN GameRent
                 ELSE IF k = "OWNER" THEN 0 ELSE AgentLamports]]

\* The environment an instruction reads: the oracle accounts and the clock.
InitialEnv ==
    [vrf_data |-> [v \in VrfAccounts |-> IF v = "VRF2" THEN 1 ELSE 0],
     clock |-> [unix_timestamp |-> 0, slot |-> 0]]

Cur == [s |-> s, open |-> open, pending |-> pending, tok |-> tok, lam |-> lam]
Env == [vrf_data |-> vrf_data, clock |-> clock]

\* A stand-alone run of compute_total_payout: its inputs, the loop's
\* accumulator, the number of draws made and, once returned, the result.
EngineRun(pc, seed, bets, gs) ==
    [pc |-> pc, seed |-> seed, bets |-> bets, gs |-> gs, draws |-> 0,
     acc |-> SpinStart(seed),
     result |-> [err |-> "Ok", total |-> 0, doubles |-> 0, mul |-> 1,
                 last |-> <<0, 0, 0>>]]

EngIdle == EngineRun("idle", 0, <<0, 0, 0, 0, 0, 0>>, InitialGameState(0))

\* A call of apply_agent_commission(gs, card, total_bet, payout): res is what
\* the function returned, tail what the payout-and-commission tail of
\* settle_play made of it.
ComCall(pc, gs, card, total_bet, payout) ==
    [pc |-> pc, gs |-> gs, card |-> card, total_bet |-> total_bet, payout |-> payout,
     res |-> [err |-> "Ok", s |-> gs], tail |-> ""]

ComIdle == ComCall("idle", InitialGameState(0), <<>>, 0, 0)

\* A call of pick_symbol(seed, w) or of compute_spin_payout(b, reels, gs).
PickCall(pc, seed, w) ==
    [f |-> "pick_symbol", pc |-> pc, seed |-> seed, w |-> w,
     res |-> [err |-> "Ok", sym |-> 0]]

SpinCall(pc, b, reels, gs) ==
    [f |-> "compute_spin_payout", pc |-> pc, b |-> b, reels |-> reels, gs |-> gs,
     res |-> [err |-> "Ok", total |-> 0]]

CallIdle == PickCall("idle", 0, <<0, 0, 0, 0, 0, 0>>)

\* ------------------------------------------------------------------ results
Fail(w, e) == [err |-> e, w |-> w]
Done(w) == [err |-> "Ok", w |-> w]

\* ------------------------------------------------------------------ helpers
require_owner(gs, signer) == IF gs.owner = signer THEN "Ok" ELSE "Unauthorized"

\* token::transfer of the SPL token program, as pool_transfer_signed and
\* pool_transfer_from_user invoke it.
token_transfer(tk, from, to, authority, amount) ==
    IF tk[from].amount < amount THEN [err |-> "TokenInsufficientFunds", tok |-> tk]
    ELSE IF tk[from].mint # tk[to].mint THEN [err |-> "TokenMintMismatch", tok |-> tk]
    ELSE IF TokAuthority(from) # authority THEN [err |-> "TokenOwnerMismatch", tok |-> tk]
    ELSE IF from = to THEN [err |-> "Ok", tok |-> tk]
    ELSE IF tk[to].amount + amount > U64_MAX THEN [err |-> "TokenOverflow", tok |-> tk]
    ELSE [err |-> "Ok",
          tok |-> [tk EXCEPT ![from].amount = @ - amount, ![to].amount = @ + amount]]

pool_transfer_signed(tk, from, to, amount) == token_transfer(tk, from, to, "GAME", amount)

\* pool_transfer_from_user moving the amount twice.
pool_transfer_from_user_twice(tk, from, to, user, amount) ==
    token_transfer(tk, from, to, user, 2 * amount)

pool_transfer_from_user(tk, from, to, user, amount) == token_transfer(tk, from, to, user, amount)

\* bets_total: try_fold of checked_add.
RECURSIVE BetsFold(_, _)
BetsFold(acc, b) ==
    IF b = <<>> THEN [err |-> "Ok", total |-> acc]
    ELSE IF acc + Head(b) > U64_MAX THEN [err |-> "MathOverflow", total |-> 0]
    ELSE BetsFold(acc + Head(b), Tail(b))

\* bets_total adding with wrap-around instead of checked_add (lib.rs 706).
bets_total_wrapping(b) == [err |-> "Ok", total |-> SumSeq(b) % (U64_MAX + 1)]

bets_total(b) == BetsFold(0, b)

\* validate_bets without the per-slot minimum (lib.rs 686-691).
validate_bets_no_min(b, min_bet) ==
    IF b[6] # 0 THEN "InvalidBetTable"
    ELSE IF bets_total(b).err # "Ok" THEN bets_total(b).err
    ELSE IF ~(bets_total(b).total > 0) THEN "InvalidAmount"
    ELSE "Ok"

validate_bets(b, min_bet) ==
    IF b[6] # 0 THEN "InvalidBetTable"
    ELSE IF bets_total(b).err # "Ok" THEN bets_total(b).err
    ELSE IF ~(bets_total(b).total > 0) THEN "InvalidAmount"
    ELSE IF min_bet > 0 /\ \E i \in 1..5 : b[i] > 0 /\ ~(b[i] >= min_bet)
         THEN "BetBelowMinimum"
    ELSE "Ok"

\* validate_weights without the per-entry test (lib.rs 697).
validate_weights_sum_only(w) ==
    IF SumSeq(w) # 10000 THEN "InvalidSymbolWeights" ELSE "Ok"

validate_weights(w) ==
    IF \E i \in 1..Len(w) : ~(w[i] > 0) THEN "InvalidSymbolWeights"
    ELSE IF SumSeq(w) # 10000 THEN "InvalidSymbolWeights"
    ELSE "Ok"

\* The oracle account holds VRF_DATA_LEN bytes; the oracle writes its result
\* to the first 32, read at offset 0, and the rest stay zero.
read_vrf_bytes(e, vrf, expected, offset) ==
    IF vrf # expected THEN [err |-> "InvalidVrfAccount", out |-> 0]
    ELSE IF VrfOwner(vrf) # "SWITCHBOARD_V2_PROGRAM_ID"
         THEN [err |-> "InvalidVrfOwner", out |-> 0]
    ELSE IF ~(VRF_DATA_LEN >= offset + 32) THEN [err |-> "InvalidVrfData", out |-> 0]
    ELSE [err |-> "Ok", out |-> IF offset = 0 THEN e.vrf_data[vrf] ELSE 0]

\* Index (1-based) of the first agent satisfying a test, 0 when there is none.
FirstIndex(agents, Test(_)) ==
    IF \E i \in 1..Len(agents) : Test(agents[i])
    THEN CHOOSE i \in 1..Len(agents) :
           /\ Test(agents[i])
           /\ \A j \in 1..(i - 1) : ~Test(agents[j])
    ELSE 0

AgentPosition(gs, key) == LET T(a) == a.pubkey = key IN FirstIndex(gs.agents, T)

find_active_agent_by_room_card(gs, card) ==
    LET T(a) == a.room_card = card /\ a.room_card > 0 IN FirstIndex(gs.agents, T)

\* apply_agent_commission without the .max(0) of lib.rs 867.
apply_agent_commission_no_floor(gs, card, total_bet, payout) ==
    IF card = <<>> THEN [err |-> "Ok", s |-> gs]
    ELSE
      LET T(x) == x.is_active /\ x.room_card = card[1]
          i    == FirstIndex(gs.agents, T)
          net  == payout - total_bet
          rate == gs.commission_rate
      IN  IF i = 0 THEN [err |-> "InvalidRoomCard", s |-> gs]
          ELSE IF rate = 0 THEN [err |-> "Ok", s |-> gs]
          ELSE IF net < 0 THEN
            LET delta == ((-net) * rate) \div 100
            IN  IF delta > I64_MAX \/ gs.agents[i].commission + delta > I64_MAX
                THEN [err |-> "MathOverflow", s |-> gs]
                ELSE [err |-> "Ok",
                      s |-> [gs EXCEPT !.agents[i].commission = @ + delta]]
          ELSE IF net > 0 THEN
            IF gs.agents[i].commission = 0 THEN [err |-> "Ok", s |-> gs]
            ELSE
              LET delta == (net * rate) \div 100
                  sub   == IF gs.agents[i].commission - delta < -I64_MAX - 1
                           THEN -I64_MAX - 1
                           ELSE gs.agents[i].commission - delta
              IN  IF delta > I64_MAX THEN [err |-> "MathOverflow", s |-> gs]
                  ELSE [err |-> "Ok",
                        s |-> [gs EXCEPT !.agents[i].commission =
                                            sub]]
          ELSE [err |-> "Ok", s |-> gs]

\* apply_agent_commission rounding the accrual of lib.rs 852-855 up.
apply_agent_commission_ceil(gs, card, total_bet, payout) ==
    IF card = <<>> THEN [err |-> "Ok", s |-> gs]
    ELSE
      LET T(x) == x.is_active /\ x.room_card = card[1]
          i    == FirstIndex(gs.agents, T)
          net  == payout - total_bet
          rate == gs.commission_rate
      IN  IF i = 0 THEN [err |-> "InvalidRoomCard", s |-> gs]
          ELSE IF rate = 0 THEN [err |-> "Ok", s |-> gs]
          ELSE IF net < 0 THEN
            LET delta == (((-net) * rate) + 99) \div 100
            IN  IF delta > I64_MAX \/ gs.agents[i].commission + delta > I64_MAX
                THEN [err |-> "MathOverflow", s |-> gs]
                ELSE [err |-> "Ok",
                      s |-> [gs EXCEPT !.agents[i].commission = @ + delta]]
          ELSE IF net > 0 THEN
            IF gs.agents[i].commission = 0 THEN [err |-> "Ok", s |-> gs]
            ELSE
              LET delta == (net * rate) \div 100
                  sub   == IF gs.agents[i].commission - delta < -I64_MAX - 1
                           THEN -I64_MAX - 1
                           ELSE gs.agents[i].commission - delta
              IN  IF delta > I64_MAX THEN [err |-> "MathOverflow", s |-> gs]
                  ELSE [err |-> "Ok",
                        s |-> [gs EXCEPT !.agents[i].commission =
                                            IF sub > 0 THEN sub ELSE 0]]
          ELSE [err |-> "Ok", s |-> gs]

\* apply_agent_commission clawing back on the payout instead of the net win
\* (lib.rs 862).
apply_agent_commission_gross(gs, card, total_bet, payout) ==
    IF card = <<>> THEN [err |-> "Ok", s |-> gs]
    ELSE
      LET T(x) == x.is_active /\ x.room_card = card[1]
          i    == FirstIndex(gs.agents, T)
          net  == payout - total_bet
          rate == gs.commission_rate
      IN  IF i = 0 THEN [err |-> "InvalidRoomCard", s |-> gs]
          ELSE IF rate = 0 THEN [err |-> "Ok", s |-> gs]
          ELSE IF net < 0 THEN
            LET delta == ((-net) * rate) \div 100
            IN  IF delta > I64_MAX \/ gs.agents[i].commission + delta > I64_MAX
                THEN [err |-> "MathOverflow", s |-> gs]
                ELSE [err |-> "Ok",
                      s |-> [gs EXCEPT !.agents[i].commission = @ + delta]]
          ELSE IF net > 0 THEN
            IF gs.agents[i].commission = 0 THEN [err |-> "Ok", s |-> gs]
            ELSE
              LET delta == (payout * rate) \div 100
                  sub   == IF gs.agents[i].commission - delta < -I64_MAX - 1
                           THEN -I64_MAX - 1
                           ELSE gs.agents[i].commission - delta
              IN  IF delta > I64_MAX THEN [err |-> "MathOverflow", s |-> gs]
                  ELSE [err |-> "Ok",
                        s |-> [gs EXCEPT !.agents[i].commission =
                                            IF sub > 0 THEN sub ELSE 0]]
          ELSE [err |-> "Ok", s |-> gs]

\* apply_agent_commission booking to the first agent of the list whenever
\* some agent holds the card (lib.rs 841-845).
apply_agent_commission_first_slot(gs, card, total_bet, payout) ==
    IF card = <<>> THEN [err |-> "Ok", s |-> gs]
    ELSE
      LET T(x) == x.is_active /\ x.room_card = card[1]
          i    == IF FirstIndex(gs.agents, T) = 0 THEN 0 ELSE 1
          net  == payout - total_bet
          rate == gs.commission_rate
      IN  IF i = 0 THEN [err |-> "InvalidRoomCard", s |-> gs]
          ELSE IF rate = 0 THEN [err |-> "Ok", s |-> gs]
          ELSE IF net < 0 THEN
            LET delta == ((-net) * rate) \div 100
            IN  IF delta > I64_MAX \/ gs.agents[i].commission + delta > I64_MAX
                THEN [err |-> "MathOverflow", s |-> gs]
                ELSE [err |-> "Ok",
                      s |-> [gs EXCEPT !.agents[i].commission = @ + delta]]
          ELSE IF net > 0 THEN
            IF gs.agents[i].commission = 0 THEN [err |-> "Ok", s |-> gs]
            ELSE
              LET delta == (net * rate) \div 100
                  sub   == IF gs.agents[i].commission - delta < -I64_MAX - 1
                           THEN -I64_MAX - 1
                           ELSE gs.agents[i].commission - delta
              IN  IF delta > I64_MAX THEN [err |-> "MathOverflow", s |-> gs]
                  ELSE [err |-> "Ok",
                        s |-> [gs EXCEPT !.agents[i].commission =
                                            IF sub > 0 THEN sub ELSE 0]]
          ELSE [err |-> "Ok", s |-> gs]

\* Result<()> with the updated GameState.
apply_agent_commission(gs, card, total_bet, payout) ==
    IF card = <<>> THEN [err |-> "Ok", s |-> gs]
    ELSE
      LET T(x) == x.is_active /\ x.room_card = card[1]
          i    == FirstIndex(gs.agents, T)
          net  == payout - total_bet
          rate == gs.commission_rate
      IN  IF i = 0 THEN [err |-> "InvalidRoomCard", s |-> gs]
          ELSE IF rate = 0 THEN [err |-> "Ok", s |-> gs]
          ELSE IF net < 0 THEN
            LET delta == ((-net) * rate) \div 100
            IN  IF delta > I64_MAX \/ gs.agents[i].commission + delta > I64_MAX
                THEN [err |-> "MathOverflow", s |-> gs]
                ELSE [err |-> "Ok",
                      s |-> [gs EXCEPT !.agents[i].commission = @ + delta]]
          ELSE IF net > 0 THEN
            IF gs.agents[i].commission = 0 THEN [err |-> "Ok", s |-> gs]
            ELSE
              LET delta == (net * rate) \div 100
                  sub   == IF gs.agents[i].commission - delta < -I64_MAX - 1
                           THEN -I64_MAX - 1
                           ELSE gs.agents[i].commission - delta
              IN  IF delta > I64_MAX THEN [err |-> "MathOverflow", s |-> gs]
                  ELSE [err |-> "Ok",
                        s |-> [gs EXCEPT !.agents[i].commission =
                                            IF sub > 0 THEN sub ELSE 0]]
          ELSE [err |-> "Ok", s |-> gs]

\* ------------------------------------------------------------------ owner instructions
\* Every instruction's Accounts struct requires the GameState account: on a
\* closed game it fails before the handler runs.  Owner(w, signer) is that
\* constraint followed by require_owner.
Entry(w) == IF w.open THEN "Ok" ELSE "AccountNotInitialized"

OwnerEntry(w, signer) ==
    IF Entry(w) # "Ok" THEN Entry(w) ELSE require_owner(w.s, signer)

\* set_commission_rate without the range test of lib.rs 77.
set_commission_rate_unchecked(w, signer, rate) ==
    IF OwnerEntry(w, signer) # "Ok" THEN Fail(w, OwnerEntry(w, signer))
    ELSE Done([w EXCEPT !.s.commission_rate = rate])

set_commission_rate(w, signer, rate) ==
    IF OwnerEntry(w, signer) # "Ok" THEN Fail(w, OwnerEntry(w, signer))
    ELSE IF ~(rate <= 100) THEN Fail(w, "InvalidCommissionRate")
    ELSE Done([w EXCEPT !.s.commission_rate = rate])

set_stake_threshold(w, signer, threshold) ==
    IF OwnerEntry(w, signer) # "Ok" THEN Fail(w, OwnerEntry(w, signer))
    ELSE Done([w EXCEPT !.s.stake_threshold = threshold])

set_min_bet(w, signer, min_bet) ==
    IF OwnerEntry(w, signer) # "Ok" THEN Fail(w, OwnerEntry(w, signer))
    ELSE IF ~(min_bet > 0) THEN Fail(w, "InvalidAmount")
    ELSE Done([w EXCEPT !.s.min_bet = min_bet])

set_symbol_weights(w, signer, wt) ==
    IF OwnerEntry(w, signer) # "Ok" THEN Fail(w, OwnerEntry(w, signer))
    ELSE IF validate_weights(wt) # "Ok" THEN Fail(w, validate_weights(wt))
    ELSE Done([w EXCEPT !.s.symbol_weights = wt])

set_payout_triple(w, signer, p) ==
    IF OwnerEntry(w, signer) # "Ok" THEN Fail(w, OwnerEntry(w, signer))
    ELSE Done([w EXCEPT !.s.payout_triple = p])

set_payout_double(w, signer, p) ==
    IF OwnerEntry(w, signer) # "Ok" THEN Fail(w, OwnerEntry(w, signer))
    ELSE Done([w EXCEPT !.s.payout_double = p])

set_vrf(w, signer, vrf, offset) ==
    IF OwnerEntry(w, signer) # "Ok" THEN Fail(w, OwnerEntry(w, signer))
    ELSE Done([w EXCEPT !.s.vrf = vrf, !.s.vrf_result_offset = offset])

set_payment_token(w, signer, token_mint, pool) ==
    IF OwnerEntry(w, signer) # "Ok" THEN Fail(w, OwnerEntry(w, signer))
    ELSE IF w.tok[pool].mint # token_mint THEN Fail(w, "PoolMintMismatch")
    ELSE IF TokAuthority(pool) # "GAME" THEN Fail(w, "PoolAuthorityMismatch")
    ELSE Done([w EXCEPT !.s.pool_mint = token_mint,
                        !.s.pool_token_account = pool,
                        !.s.total_pool = w.tok[pool].amount])

sync_pool_total(w, signer, pool) ==
    IF OwnerEntry(w, signer) # "Ok" THEN Fail(w, OwnerEntry(w, signer))
    ELSE IF pool # w.s.pool_token_account THEN Fail(w, "InvalidPoolAccount")
    ELSE Done([w EXCEPT !.s.total_pool = w.tok[pool].amount])

withdraw_pool(w, signer, pool, owner_tok, amount) ==
    IF OwnerEntry(w, signer) # "Ok" THEN Fail(w, OwnerEntry(w, signer))
    ELSE IF pool # w.s.pool_token_account THEN Fail(w, "InvalidPoolAccount")
    ELSE IF w.tok[pool].mint # w.s.pool_mint THEN Fail(w, "PoolMintMismatch")
    ELSE IF ~(amount > 0) THEN Fail(w, "InvalidAmount")
    ELSE IF ~(w.tok[pool].amount >= amount) THEN Fail(w, "InsufficientPool")
    ELSE IF ~(w.s.total_pool >= amount) THEN Fail(w, "InsufficientPool")
    ELSE LET tr == pool_transfer_signed(w.tok, pool, owner_tok, amount)
         IN  IF tr.err # "Ok" THEN Fail(w, tr.err)
             ELSE Done([w EXCEPT !.tok = tr.tok, !.s.total_pool = @ - amount])

\* close_game that also deletes the pending records.
close_game_drops_pending(w, signer, pool, owner_tok) ==
    IF OwnerEntry(w, signer) # "Ok" THEN Fail(w, OwnerEntry(w, signer))
    ELSE IF pool # w.s.pool_token_account THEN Fail(w, "InvalidPoolAccount")
    ELSE IF w.tok[pool].mint # w.s.pool_mint THEN Fail(w, "PoolMintMismatch")
    ELSE LET amount == w.tok[pool].amount
             tr == IF amount > 0
                   THEN pool_transfer_signed(w.tok, pool, owner_tok, amount)
                   ELSE [err |-> "Ok", tok |-> w.tok]
         IN  IF tr.err # "Ok" THEN Fail(w, tr.err)
             ELSE Done([w EXCEPT !.tok = tr.tok, !.s.total_pool = 0,
                                 !.open = FALSE,
                                 !.pending = [h \in Handles |-> NoPending],
                                 !.lam["OWNER"] = @ + w.lam["GAME"],
                                 !.lam["GAME"] = 0])

\* close = owner: the GameState account is closed and its lamports go to the
\* owner once the handler has returned Ok.
close_game(w, signer, pool, owner_tok) ==
    IF OwnerEntry(w, signer) # "Ok" THEN Fail(w, OwnerEntry(w, signer))
    ELSE IF pool # w.s.pool_token_account THEN Fail(w, "InvalidPoolAccount")
    ELSE IF w.tok[pool].mint # w.s.pool_mint THEN Fail(w, "PoolMintMismatch")
    ELSE LET amount == w.tok[pool].amount
             tr == IF amount > 0
                   THEN pool_transfer_signed(w.tok, pool, owner_tok, amount)
                   ELSE [err |-> "Ok", tok |-> w.tok]
         IN  IF tr.err # "Ok" THEN Fail(w, tr.err)
             ELSE Done([w EXCEPT !.tok = tr.tok, !.s.total_pool = 0,
                                 !.open = FALSE,
                                 !.lam["OWNER"] = @ + w.lam["GAME"],
                                 !.lam["GAME"] = 0])

\* become_agent without the threshold test of lib.rs 224.
become_agent_any_stake(w, e, agent, stake_amount) ==
    IF Entry(w) # "Ok" THEN Fail(w, Entry(w))
    ELSE IF ~(Len(w.s.agents) < MAX_AGENT_COUNT) THEN Fail(w, "TooManyAgents")
    ELSE IF w.lam[agent] < stake_amount THEN Fail(w, "InsufficientLamports")
    ELSE
      LET now  == e.clock.unix_timestamp
          lam1 == [w.lam EXCEPT ![agent] = @ - stake_amount,
                                !["GAME"] = @ + stake_amount]
          i    == AgentPosition(w.s, agent)
      IN  IF i # 0 THEN
            LET a == w.s.agents[i]
                fresh == a.room_card = 0
                room_card == IF fresh THEN w.s.next_room_card ELSE a.room_card
            IN  IF fresh /\ w.s.next_room_card + 1 > U64_MAX THEN Fail(w, "MathOverflow")
                ELSE IF a.stake + stake_amount > U64_MAX THEN Fail(w, "MathOverflow")
                ELSE Done([w EXCEPT
                       !.lam = lam1,
                       !.s.next_room_card = IF fresh THEN @ + 1 ELSE @,
                       !.s.agents[i] =
                           [a EXCEPT !.stake = a.stake + stake_amount,
                                     !.is_active = TRUE,
                                     !.room_card = room_card,
                                     !.stake_time = now,
                                     !.last_settlement =
                                         IF a.last_settlement < 0 THEN now ELSE @]])
          ELSE IF w.s.next_room_card + 1 > U64_MAX THEN Fail(w, "MathOverflow")
          ELSE Done([w EXCEPT
                 !.lam = lam1,
                 !.s.next_room_card = @ + 1,
                 !.s.agents = Append(@,
                     [pubkey |-> agent, stake |-> stake_amount,
                      room_card |-> w.s.next_room_card, commission |-> 0,
                      stake_time |-> now, last_settlement |-> now,
                      is_active |-> TRUE])])

\* become_agent drawing a new card on every call (lib.rs 236 without its test).
become_agent_new_card(w, e, agent, stake_amount) ==
    IF Entry(w) # "Ok" THEN Fail(w, Entry(w))
    ELSE IF ~(stake_amount >= w.s.stake_threshold) THEN Fail(w, "StakeBelowThreshold")
    ELSE IF ~(Len(w.s.agents) < MAX_AGENT_COUNT) THEN Fail(w, "TooManyAgents")
    ELSE IF w.lam[agent] < stake_amount THEN Fail(w, "InsufficientLamports")
    ELSE
      LET now  == e.clock.unix_timestamp
          lam1 == [w.lam EXCEPT ![agent] = @ - stake_amount,
                                !["GAME"] = @ + stake_amount]
          i    == AgentPosition(w.s, agent)
      IN  IF i # 0 THEN
            LET a == w.s.agents[i]
                fresh == TRUE
                room_card == IF fresh THEN w.s.next_room_card ELSE a.room_card
            IN  IF fresh /\ w.s.next_room_card + 1 > U64_MAX THEN Fail(w, "MathOverflow")
                ELSE IF a.stake + stake_amount > U64_MAX THEN Fail(w, "MathOverflow")
                ELSE Done([w EXCEPT
                       !.lam = lam1,
                       !.s.next_room_card = IF fresh THEN @ + 1 ELSE @,
                       !.s.agents[i] =
                           [a EXCEPT !.stake = a.stake + stake_amount,
                                     !.is_active = TRUE,
                                     !.room_card = room_card,
                                     !.stake_time = now,
                                     !.last_settlement =
                                         IF a.last_settlement < 0 THEN now ELSE @]])
          ELSE IF w.s.next_room_card + 1 > U64_MAX THEN Fail(w, "MathOverflow")
          ELSE Done([w EXCEPT
                 !.lam = lam1,
                 !.s.next_room_card = @ + 1,
                 !.s.agents = Append(@,
                     [pubkey |-> agent, stake |-> stake_amount,
                      room_card |-> w.s.next_room_card, commission |-> 0,
                      stake_time |-> now, last_settlement |-> now,
                      is_active |-> TRUE])])

\* ------------------------------------------------------------------ agent instructions
become_agent(w, e, agent, stake_amount) ==
    IF Entry(w) # "Ok" THEN Fail(w, Entry(w))
    ELSE IF ~(stake_amount >= w.s.stake_threshold) THEN Fail(w, "StakeBelowThreshold")
    ELSE IF ~(Len(w.s.agents) < MAX_AGENT_COUNT) THEN Fail(w, "TooManyAgents")
    ELSE IF w.lam[agent] < stake_amount THEN Fail(w, "InsufficientLamports")
    ELSE
      LET now  == e.clock.unix_timestamp
          lam1 == [w.lam EXCEPT ![agent] = @ - stake_amount,
                                !["GAME"] = @ + stake_amount]
          i    == AgentPosition(w.s, agent)
      IN  IF i # 0 THEN
            LET a == w.s.agents[i]
                fresh == a.room_card = 0
                room_card == IF fresh THEN w.s.next_room_card ELSE a.room_card
            IN  IF fresh /\ w.s.next_room_card + 1 > U64_MAX THEN Fail(w, "MathOverflow")
                ELSE IF a.stake + stake_amount > U64_MAX THEN Fail(w, "MathOverflow")
                ELSE Done([w EXCEPT
                       !.lam = lam1,
                       !.s.next_room_card = IF fresh THEN @ + 1 ELSE @,
                       !.s.agents[i] =
                           [a EXCEPT !.stake = a.stake + stake_amount,
                                     !.is_active = TRUE,
                                     !.room_card = room_card,
                                     !.stake_time = now,
                                     !.last_settlement =
                                         IF a.last_settlement < 0 THEN now ELSE @]])
          ELSE IF w.s.next_room_card + 1 > U64_MAX THEN Fail(w, "MathOverflow")
          ELSE Done([w EXCEPT
                 !.lam = lam1,
                 !.s.next_room_card = @ + 1,
                 !.s.agents = Append(@,
                     [pubkey |-> agent, stake |-> stake_amount,
                      room_card |-> w.s.next_room_card, commission |-> 0,
                      stake_time |-> now, last_settlement |-> now,
                      is_active |-> TRUE])])

\* redeem_agent_stake without the reset of lib.rs 285.
redeem_agent_stake_keeps_stake(w, agent) ==
    IF Entry(w) # "Ok" THEN Fail(w, Entry(w))
    ELSE
      LET i == AgentPosition(w.s, agent)
      IN  IF i = 0 THEN Fail(w, "AgentNotFound")
          ELSE LET amount == w.s.agents[i].stake
               IN  IF ~(amount > 0) THEN Fail(w, "NoStakeToRedeem")
                   ELSE IF ~(w.lam["GAME"] >= amount)
                        THEN Fail(w, "InsufficientStakeVault")
                   ELSE Done([w EXCEPT
                          !.lam["GAME"] = @ - amount,
                          !.lam[agent] = @ + amount,
                          !.s.agents[i].room_card = 0,
                          !.s.agents[i].commission = 0])

redeem_agent_stake(w, agent) ==
    IF Entry(w) # "Ok" THEN Fail(w, Entry(w))
    ELSE
      LET i == AgentPosition(w.s, agent)
      IN  IF i = 0 THEN Fail(w, "AgentNotFound")
          ELSE LET amount == w.s.agents[i].stake
               IN  IF ~(amount > 0) THEN Fail(w, "NoStakeToRedeem")
                   ELSE IF ~(w.lam["GAME"] >= amount)
                        THEN Fail(w, "InsufficientStakeVault")
                   ELSE Done([w EXCEPT
                          !.lam["GAME"] = @ - amount,
                          !.lam[agent] = @ + amount,
                          !.s.agents[i].stake = 0,
                          !.s.agents[i].room_card = 0,
                          !.s.agents[i].commission = 0])

\* withdraw_commission without the total_pool update of lib.rs 328-331.
withdraw_commission_no_book(w, e, agent, pool, agent_tok) ==
    IF Entry(w) # "Ok" THEN Fail(w, Entry(w))
    ELSE IF pool # w.s.pool_token_account THEN Fail(w, "InvalidPoolAccount")
    ELSE
      LET i == AgentPosition(w.s, agent)
          now == e.clock.unix_timestamp
      IN  IF i = 0 THEN Fail(w, "AgentNotFound")
          ELSE IF ~(w.s.agents[i].room_card > 0) THEN Fail(w, "AgentInactive")
          ELSE IF ~(now - w.s.agents[i].last_settlement >= w.s.settlement_period)
               THEN Fail(w, "SettlementNotReady")
          ELSE IF w.s.agents[i].commission < 0 THEN Fail(w, "InvalidCommissionBalance")
          ELSE LET amount == w.s.agents[i].commission
               IN  IF ~(amount > 0) THEN Fail(w, "NoCommissionToWithdraw")
                   ELSE IF ~(w.tok[pool].amount >= amount) THEN Fail(w, "InsufficientPool")
                   ELSE IF ~(w.s.total_pool >= amount) THEN Fail(w, "InsufficientPool")
                   ELSE LET tr == pool_transfer_signed(w.tok, pool, agent_tok, amount)
                        IN  IF tr.err # "Ok" THEN Fail(w, tr.err)
                            ELSE Done([w EXCEPT
                                   !.tok = tr.tok,
                                   !.s.agents[i].commission = 0,
                                   !.s.agents[i].last_settlement = now])

\* withdraw_commission without the settlement-period test of lib.rs 306-310.
withdraw_commission_no_wait(w, e, agent, pool, agent_tok) ==
    IF Entry(w) # "Ok" THEN Fail(w, Entry(w))
    ELSE IF pool # w.s.pool_token_account THEN Fail(w, "InvalidPoolAccount")
    ELSE
      LET i == AgentPosition(w.s, agent)
          now == e.clock.unix_timestamp
      IN  IF i = 0 THEN Fail(w, "AgentNotFound")
          ELSE IF ~(w.s.agents[i].room_card > 0) THEN Fail(w, "AgentInactive")
          ELSE IF w.s.agents[i].commission < 0 THEN Fail(w, "InvalidCommissionBalance")
          ELSE LET amount == w.s.agents[i].commission
               IN  IF ~(amount > 0) THEN Fail(w, "NoCommissionToWithdraw")
                   ELSE IF ~(w.tok[pool].amount >= amount) THEN Fail(w, "InsufficientPool")
                   ELSE IF ~(w.s.total_pool >= amount) THEN Fail(w, "InsufficientPool")
                   ELSE LET tr == pool_transfer_signed(w.tok, pool, agent_tok, amount)
                        IN  IF tr.err # "Ok" THEN Fail(w, tr.err)
                            ELSE Done([w EXCEPT
                                   !.tok = tr.tok,
                                   !.s.total_pool = @ - amount,
                                   !.s.agents[i].commission = 0,
                                   !.s.agents[i].last_settlement = now])

\* withdraw_commission that pays out without recording the time in
\* last_settlement (lib.rs 333).
withdraw_commission_no_stamp(w, e, agent, pool, agent_tok) ==
    IF Entry(w) # "Ok" THEN Fail(w, Entry(w))
    ELSE IF pool # w.s.pool_token_account THEN Fail(w, "InvalidPoolAccount")
    ELSE
      LET i == AgentPosition(w.s, agent)
          now == e.clock.unix_timestamp
      IN  IF i = 0 THEN Fail(w, "AgentNotFound")
          ELSE IF ~(w.s.agents[i].room_card > 0) THEN Fail(w, "AgentInactive")
          ELSE IF ~(now - w.s.agents[i].last_settlement >= w.s.settlement_period)
               THEN Fail(w, "SettlementNotReady")
          ELSE IF w.s.agents[i].commission < 0 THEN Fail(w, "InvalidCommissionBalance")
          ELSE LET amount == w.s.agents[i].commission
               IN  IF ~(amount > 0) THEN Fail(w, "NoCommissionToWithdraw")
                   ELSE IF ~(w.tok[pool].amount >= amount) THEN Fail(w, "InsufficientPool")
                   ELSE IF ~(w.s.total_pool >= amount) THEN Fail(w, "InsufficientPool")
                   ELSE LET tr == pool_transfer_signed(w.tok, pool, agent_tok, amount)
                        IN  IF tr.err # "Ok" THEN Fail(w, tr.err)
                            ELSE Done([w EXCEPT
                                   !.tok = tr.tok,
                                   !.s.total_pool = @ - amount,
                                   !.s.agents[i].commission = 0])

withdraw_commission(w, e, agent, pool, agent_tok) ==
    IF Entry(w) # "Ok" THEN Fail(w, Entry(w))
    ELSE IF pool # w.s.pool_token_account THEN Fail(w, "InvalidPoolAccount")
    ELSE
      LET i == AgentPosition(w.s, agent)
          now == e.clock.unix_timestamp
      IN  IF i = 0 THEN Fail(w, "AgentNotFound")
          ELSE IF ~(w.s.agents[i].room_card > 0) THEN Fail(w, "AgentInactive")
          ELSE IF ~(now - w.s.agents[i].last_settlement >= w.s.settlement_period)
               THEN Fail(w, "SettlementNotReady")
          ELSE IF w.s.agents[i].commission < 0 THEN Fail(w, "InvalidCommissionBalance")
          ELSE LET amount == w.s.agents[i].commission
               IN  IF ~(amount > 0) THEN Fail(w, "NoCommissionToWithdraw")
                   ELSE IF ~(w.tok[pool].amount >= amount) THEN Fail(w, "InsufficientPool")
                   ELSE IF ~(w.s.total_pool >= amount) THEN Fail(w, "InsufficientPool")
                   ELSE LET tr == pool_transfer_signed(w.tok, pool, agent_tok, amount)
                        IN  IF tr.err # "Ok" THEN Fail(w, tr.err)
                            ELSE Done([w EXCEPT
                                   !.tok = tr.tok,
                                   !.s.total_pool = @ - amount,
                                   !.s.agents[i].commission = 0,
                                   !.s.agents[i].last_settlement = now])

\* ------------------------------------------------------------------ play instructions
\* The tail shared by play and settle_play (lib.rs 362-380 and 458-481): pay
\* the payout out of the pool, then book the agent's commission.  w0 is the
\* world the instruction was entered in: ctx.accounts.pool_token_account is
\* deserialised then and not reloaded after the stake transfer, so its
\* .amount is w0's; w carries the handler's writes so far.
PayAndBook(w0, w, pool, player_tok, card, total_bet, payout) ==
    LET tr == IF payout > 0 THEN pool_transfer_signed(w.tok, pool, player_tok, payout)
              ELSE [err |-> "Ok", tok |-> w.tok]
        s1 == IF payout > 0 THEN [w.s EXCEPT !.total_pool = @ - payout] ELSE w.s
        ac == apply_agent_commission(s1, card, total_bet, payout)
    IN  IF payout > 0 /\ ~(w0.tok[pool].amount >= payout) THEN Fail(w0, "InsufficientPool")
        ELSE IF payout > 0 /\ ~(w.s.total_pool >= payout) THEN Fail(w0, "InsufficientPool")
        ELSE IF tr.err # "Ok" THEN Fail(w0, tr.err)
        ELSE IF ac.err # "Ok" THEN Fail(w0, ac.err)
        ELSE Done([w EXCEPT !.tok = tr.tok, !.s = ac.s])

\* The seed play derives from the oracle value vrf.
PlaySeed(w, e, player, vrf) ==
    derive_seed(vrf, <<player>>, <<w.s.nonce>>, <<e.clock.slot>>, <<>>)

\* play without the pool-account test of lib.rs 341-345.
play_any_pool(w, e, player, player_tok, pool, vrf, bets, room_card) ==
    IF Entry(w) # "Ok" THEN Fail(w, Entry(w))
    ELSE IF validate_bets(bets, w.s.min_bet) # "Ok"
         THEN Fail(w, validate_bets(bets, w.s.min_bet))
    ELSE
      LET total_bet == bets_total(bets).total
          tr  == pool_transfer_from_user(w.tok, player_tok, pool, player, total_bet)
          rv  == read_vrf_bytes(e, vrf, w.s.vrf, w.s.vrf_result_offset)
          s1  == [w.s EXCEPT !.total_pool = @ + total_bet, !.nonce = @ + 1]
          cp  == compute_total_payout(PlaySeed(w, e, player, rv.out), bets, s1)
      IN  IF tr.err # "Ok" THEN Fail(w, tr.err)
          ELSE IF w.s.total_pool + total_bet > U64_MAX THEN Fail(w, "MathOverflow")
          ELSE IF rv.err # "Ok" THEN Fail(w, rv.err)
          ELSE IF w.s.nonce + 1 > U64_MAX THEN Fail(w, "MathOverflow")
          ELSE IF cp.err # "Ok" THEN Fail(w, cp.err)
          ELSE PayAndBook(w, [w EXCEPT !.tok = tr.tok, !.s = s1],
                          pool, player_tok, room_card, total_bet, cp.total)

play(w, e, player, player_tok, pool, vrf, bets, room_card) ==
    IF Entry(w) # "Ok" THEN Fail(w, Entry(w))
    ELSE IF validate_bets(bets, w.s.min_bet) # "Ok"
         THEN Fail(w, validate_bets(bets, w.s.min_bet))
    ELSE IF pool # w.s.pool_token_account THEN Fail(w, "InvalidPoolAccount")
    ELSE
      LET total_bet == bets_total(bets).total
          tr  == pool_transfer_from_user(w.tok, player_tok, pool, player, total_bet)
          rv  == read_vrf_bytes(e, vrf, w.s.vrf, w.s.vrf_result_offset)
          s1  == [w.s EXCEPT !.total_pool = @ + total_bet, !.nonce = @ + 1]
          cp  == compute_total_payout(PlaySeed(w, e, player, rv.out), bets, s1)
      IN  IF tr.err # "Ok" THEN Fail(w, tr.err)
          ELSE IF w.s.total_pool + total_bet > U64_MAX THEN Fail(w, "MathOverflow")
          ELSE IF rv.err # "Ok" THEN Fail(w, rv.err)
          ELSE IF w.s.nonce + 1 > U64_MAX THEN Fail(w, "MathOverflow")
          ELSE IF cp.err # "Ok" THEN Fail(w, cp.err)
          ELSE PayAndBook(w, [w EXCEPT !.tok = tr.tok, !.s = s1],
                          pool, player_tok, room_card, total_bet, cp.total)

\* request_play without the nonce increment of lib.rs 413.
request_play_same_nonce(w, e, h, player, player_tok, pool, vrf, bets, room_card) ==
    IF Entry(w) # "Ok" THEN Fail(w, Entry(w))
    ELSE IF w.pending[h].init THEN Fail(w, "AccountAlreadyInUse")
    ELSE IF validate_bets(bets, w.s.min_bet) # "Ok"
         THEN Fail(w, validate_bets(bets, w.s.min_bet))
    ELSE IF pool # w.s.pool_token_account THEN Fail(w, "InvalidPoolAccount")
    ELSE IF vrf # w.s.vrf THEN Fail(w, "InvalidVrfAccount")
    ELSE IF room_card # <<>> /\ find_active_agent_by_room_card(w.s, room_card[1]) = 0
         THEN Fail(w, "InvalidRoomCard")
    ELSE
      LET total_bet == bets_total(bets).total
          tr == pool_transfer_from_user(w.tok, player_tok, pool, player, total_bet)
          before == read_vrf_bytes(e, vrf, w.s.vrf, w.s.vrf_result_offset)
          p == [init |-> TRUE, player |-> player, player_token_account |-> player_tok,
                pool_token_account |-> pool, request_nonce |-> w.s.nonce,
                request_slot |-> e.clock.slot, total_bet |-> total_bet, bets |-> bets,
                has_room_card |-> room_card # <<>>,
                room_card |-> IF room_card = <<>> THEN 0 ELSE room_card[1],
                vrf_result_before |-> before.out]
      IN  IF tr.err # "Ok" THEN Fail(w, tr.err)
          ELSE IF w.s.total_pool + total_bet > U64_MAX THEN Fail(w, "MathOverflow")
          ELSE IF before.err # "Ok" THEN Fail(w, before.err)
          ELSE IF w.s.nonce + 1 > U64_MAX THEN Fail(w, "MathOverflow")
          ELSE Done([w EXCEPT !.tok = tr.tok,
                              !.s.total_pool = @ + total_bet,
                              !.pending[h] = p])

\* pending_play is created by the init constraint of RequestPlay: the handle
\* must not name an existing account.
request_play(w, e, h, player, player_tok, pool, vrf, bets, room_card) ==
    IF Entry(w) # "Ok" THEN Fail(w, Entry(w))
    ELSE IF w.pending[h].init THEN Fail(w, "AccountAlreadyInUse")
    ELSE IF validate_bets(bets, w.s.min_bet) # "Ok"
         THEN Fail(w, validate_bets(bets, w.s.min_bet))
    ELSE IF pool # w.s.pool_token_account THEN Fail(w, "InvalidPoolAccount")
    ELSE IF vrf # w.s.vrf THEN Fail(w, "InvalidVrfAccount")
    ELSE IF room_card # <<>> /\ find_active_agent_by_room_card(w.s, room_card[1]) = 0
         THEN Fail(w, "InvalidRoomCard")
    ELSE
      LET total_bet == bets_total(bets).total
          tr == pool_transfer_from_user(w.tok, player_tok, pool, player, total_bet)
          before == read_vrf_bytes(e, vrf, w.s.vrf, w.s.vrf_result_offset)
          p == [init |-> TRUE, player |-> player, player_token_account |-> player_tok,
                pool_token_account |-> pool, request_nonce |-> w.s.nonce,
                request_slot |-> e.clock.slot, total_bet |-> total_bet, bets |-> bets,
                has_room_card |-> room_card # <<>>,
                room_card |-> IF room_card = <<>> THEN 0 ELSE room_card[1],
                vrf_result_before |-> before.out]
      IN  IF tr.err # "Ok" THEN Fail(w, tr.err)
          ELSE IF w.s.total_pool + total_bet > U64_MAX THEN Fail(w, "MathOverflow")
          ELSE IF before.err # "Ok" THEN Fail(w, before.err)
          ELSE IF w.s.nonce + 1 > U64_MAX THEN Fail(w, "MathOverflow")
          ELSE Done([w EXCEPT !.tok = tr.tok,
                              !.s.total_pool = @ + total_bet,
                              !.s.nonce = @ + 1,
                              !.pending[h] = p])

\* The seed settle_play derives for record p from the oracle value "after".
SettleSeed(p, after) ==
    derive_seed(p.vrf_result_before, <<p.player>>, <<p.request_nonce>>,
                <<p.request_slot>>, <<after>>)

\* pending_play carries close = player (lib.rs 610): the record is deleted
\* once the handler has returned Ok.
ClosePending_noop(w, h) == w

\* The close of a settled record taking every pending record with it.
ClosePending_all(w, h) == [w EXCEPT !.pending = [g \in Handles |-> NoPending]]

ClosePending(w, h) == [w EXCEPT !.pending[h] = NoPending]

\* settle_play without the freshness test of lib.rs 449.
settle_play_stale_ok(w, e, h, player, player_tok, pool, vrf) ==
    IF Entry(w) # "Ok" THEN Fail(w, Entry(w))
    ELSE IF ~w.pending[h].init THEN Fail(w, "AccountNotInitialized")
    ELSE IF pool # w.s.pool_token_account THEN Fail(w, "InvalidPoolAccount")
    ELSE IF vrf # w.s.vrf THEN Fail(w, "InvalidVrfAccount")
    ELSE
      LET p == w.pending[h]
          after == read_vrf_bytes(e, vrf, w.s.vrf, w.s.vrf_result_offset)
          cp == compute_total_payout(SettleSeed(p, after.out), p.bets, w.s)
          r  == PayAndBook(w, w, pool, player_tok,
                           IF p.has_room_card THEN <<p.room_card>> ELSE <<>>,
                           p.total_bet, cp.total)
      IN  IF p.player # player THEN Fail(w, "PlayerMismatch")
          ELSE IF p.player_token_account # player_tok THEN Fail(w, "PlayerTokenMismatch")
          ELSE IF p.pool_token_account # pool THEN Fail(w, "InvalidPoolAccount")
          ELSE IF after.err # "Ok" THEN Fail(w, after.err)
          ELSE IF cp.err # "Ok" THEN Fail(w, cp.err)
          ELSE IF r.err # "Ok" THEN r
          ELSE Done(ClosePending(r.w, h))

\* settle_play with the freshness test of lib.rs 449 inverted.
settle_play_wants_stale(w, e, h, player, player_tok, pool, vrf) ==
    IF Entry(w) # "Ok" THEN Fail(w, Entry(w))
    ELSE IF ~w.pending[h].init THEN Fail(w, "AccountNotInitialized")
    ELSE IF pool # w.s.pool_token_account THEN Fail(w, "InvalidPoolAccount")
    ELSE IF vrf # w.s.vrf THEN Fail(w, "InvalidVrfAccount")
    ELSE
      LET p == w.pending[h]
          after == read_vrf_bytes(e, vrf, w.s.vrf, w.s.vrf_result_offset)
          cp == compute_total_payout(SettleSeed(p, after.out), p.bets, w.s)
          r  == PayAndBook(w, w, pool, player_tok,
                           IF p.has_room_card THEN <<p.room_card>> ELSE <<>>,
                           p.total_bet, cp.total)
      IN  IF p.player # player THEN Fail(w, "PlayerMismatch")
          ELSE IF p.player_token_account # player_tok THEN Fail(w, "PlayerTokenMismatch")
          ELSE IF p.pool_token_account # pool THEN Fail(w, "InvalidPoolAccount")
          ELSE IF after.err # "Ok" THEN Fail(w, after.err)
          ELSE IF after.out # p.vrf_result_before THEN Fail(w, "VrfNotUpdated")
          ELSE IF cp.err # "Ok" THEN Fail(w, cp.err)
          ELSE IF r.err # "Ok" THEN r
          ELSE Done(ClosePending(r.w, h))

\* settle_play without the player token account test of lib.rs 438-442.
settle_play_any_token(w, e, h, player, player_tok, pool, vrf) ==
    IF Entry(w) # "Ok" THEN Fail(w, Entry(w))
    ELSE IF ~w.pending[h].init THEN Fail(w, "AccountNotInitialized")
    ELSE IF pool # w.s.pool_token_account THEN Fail(w, "InvalidPoolAccount")
    ELSE IF vrf # w.s.vrf THEN Fail(w, "InvalidVrfAccount")
    ELSE
      LET p == w.pending[h]
          after == read_vrf_bytes(e, vrf, w.s.vrf, w.s.vrf_result_offset)
          cp == compute_total_payout(SettleSeed(p, after.out), p.bets, w.s)
          r  == PayAndBook(w, w, pool, player_tok,
                           IF p.has_room_card THEN <<p.room_card>> ELSE <<>>,
                           p.total_bet, cp.total)
      IN  IF p.player # player THEN Fail(w, "PlayerMismatch")
          ELSE IF p.pool_token_account # pool THEN Fail(w, "InvalidPoolAccount")
          ELSE IF after.err # "Ok" THEN Fail(w, after.err)
          ELSE IF ~(after.out # p.vrf_result_before) THEN Fail(w, "VrfNotUpdated")
          ELSE IF cp.err # "Ok" THEN Fail(w, cp.err)
          ELSE IF r.err # "Ok" THEN r
          ELSE Done(ClosePending(r.w, h))

settle_play(w, e, h, player, player_tok, pool, vrf) ==
    IF Entry(w) # "Ok" THEN Fail(w, Entry(w))
    ELSE IF ~w.pending[h].init THEN Fail(w, "AccountNotInitialized")
    ELSE IF pool # w.s.pool_token_account THEN Fail(w, "InvalidPoolAccount")
    ELSE IF vrf # w.s.vrf THEN Fail(w, "InvalidVrfAccount")
    ELSE
      LET p == w.pending[h]
          after == read_vrf_bytes(e, vrf, w.s.vrf, w.s.vrf_result_offset)
          cp == compute_total_payout(SettleSeed(p, after.out), p.bets, w.s)
          r  == PayAndBook(w, w, pool, player_tok,
                           IF p.has_room_card THEN <<p.room_card>> ELSE <<>>,
                           p.total_bet, cp.total)
      IN  IF p.player # player THEN Fail(w, "PlayerMismatch")
          ELSE IF p.player_token_account # player_tok THEN Fail(w, "PlayerTokenMismatch")
          ELSE IF p.pool_token_account # pool THEN Fail(w, "InvalidPoolAccount")
          ELSE IF after.err # "Ok" THEN Fail(w, after.err)
          ELSE IF ~(after.out # p.vrf_result_before) THEN Fail(w, "VrfNotUpdated")
          ELSE IF cp.err # "Ok" THEN Fail(w, cp.err)
          ELSE IF r.err # "Ok" THEN r
          ELSE Done(ClosePending(r.w, h))

\* ------------------------------------------------------------------ initial states
\* The model follows one life of the GameState account, from initialize to
\* close_game.  W0 is the state initialize leaves; W1 .. W3 are states the
\* program reaches from it by the successful instructions written out here,
\* so that bounded runs start where agents, oracle and commission exist.
E0 == InitialEnv
\* initialize (lib.rs 26-71) with the Initialize accounts (488-499): `init`
\* creates the GameState account at its fixed address, paid for by the user,
\* and fails if the account already exists.  After close_game the account is
\* gone, and anyone may create it again.
initialize(w, user, token_mint, pool) ==
    IF w.open THEN Fail(w, "AccountAlreadyInUse")
    ELSE IF w.lam[user] < GameRent THEN Fail(w, "InsufficientFunds")
    ELSE IF w.tok[pool].mint # token_mint THEN Fail(w, "PoolMintMismatch")
    ELSE IF TokAuthority(pool) # "GAME" THEN Fail(w, "PoolAuthorityMismatch")
    ELSE Done([w EXCEPT !.s = [InitialGameState(w.tok[pool].amount) EXCEPT
                                   !.owner = user,
                                   !.pool_mint = token_mint,
                                   !.pool_token_account = pool],
                        !.open = TRUE,
                        !.lam[user] = @ - GameRent,
                        !.lam["GAME"] = GameRent])

W0 == InitialWorld(InitPool)
W1 == set_vrf(W0, "OWNER", "VRF1", 0).w
W2 == become_agent(W1, E0, "A1", 1000000).w
W3 == play(W2, E0, "P1", "T_P1", "POOL", "VRF1", B_ONE, <<10000>>).w

SeedWorlds == {W0, W1, W2, W3}

Init ==
    /\ \E w \in SeedWorlds :
         /\ s = w.s
         /\ open = w.open
         /\ pending = w.pending
         /\ tok = w.tok
         /\ lam = w.lam
    /\ vrf_data = E0.vrf_data
    /\ clock = E0.clock
    /\ steps = 0
    /\ admin_ops = 0
    /\ last = [op |-> "initialize", h |-> ""]
    /\ eng = EngIdle
    /\ com = ComIdle
    /\ call = CallIdle

\* ------------------------------------------------------------------ inputs
OwnerSigners == {"OWNER", "P1"}
RateInputs == {0, 100, 101}
ThresholdInputs == {1000001}
MinBetInputs == {0, 1}
SetVrfInputs == {<<"VRF2", 0>>, <<"VRF1", 32>>, <<"VRF1", 33>>, <<"SYS", 0>>}
PaymentTokenInputs == {<<"MINT", "POOL2">>, <<"MINT2", "POOL">>, <<"MINT", "T_P1">>}
PoolInputs == {"POOL", "T_P1"}
WithdrawInputs == {0, 100, 250, 251}
StakeInputs == {999999, 1000000}
CardInputs == {<<>>, <<0>>, <<10000>>, <<10001>>}
PlayBets == {B_ONE, <<0, 0, 0, 0, 1, 0>>}

\* ------------------------------------------------------------------ transactions
\* A transaction that returns Ok commits the world it computed; one that
\* returns an error commits nothing and is a stuttering step.
Commit(r, op, h) ==
    /\ steps < MaxSteps
    /\ \E res \in {r} :
         /\ res.err = "Ok"
         /\ s' = res.w.s
         /\ open' = res.w.open
         /\ pending' = res.w.pending
         /\ tok' = res.w.tok
         /\ lam' = res.w.lam
    /\ steps' = steps + 1
    /\ last' = [op |-> op, h |-> h]
    /\ UNCHANGED <<vrf_data, clock, eng, com, call>>

OwnerCommit(r, op) ==
    /\ admin_ops < MaxAdmin
    /\ admin_ops' = admin_ops + 1
    /\ Commit(r, op, "")

UserCommit(r, op, h) ==
    /\ Commit(r, op, h)
    /\ UNCHANGED admin_ops

SetCommissionRate ==
    \E signer \in OwnerSigners, rate \in RateInputs :
        OwnerCommit(set_commission_rate(Cur, signer, rate), "set_commission_rate")

SetStakeThreshold ==
    \E signer \in OwnerSigners, t \in ThresholdInputs :
        OwnerCommit(set_stake_threshold(Cur, signer, t), "set_stake_threshold")

SetMinBet ==
    \E signer \in OwnerSigners, m \in MinBetInputs :
        OwnerCommit(set_min_bet(Cur, signer, m), "set_min_bet")

SetSymbolWeights ==
    \E signer \in OwnerSigners, wt \in WeightInputs :
        OwnerCommit(set_symbol_weights(Cur, signer, wt), "set_symbol_weights")

SetPayoutTriple ==
    \E signer \in OwnerSigners :
        OwnerCommit(set_payout_triple(Cur, signer, PT_ALT), "set_payout_triple")

SetPayoutDouble ==
    \E signer \in OwnerSigners :
        OwnerCommit(set_payout_double(Cur, signer, PD_ALT), "set_payout_double")

SetVrf ==
    \E signer \in OwnerSigners, v \in SetVrfInputs :
        OwnerCommit(set_vrf(Cur, signer, v[1], v[2]), "set_vrf")

SetPaymentToken ==
    \E signer \in OwnerSigners, v \in PaymentTokenInputs :
        OwnerCommit(set_payment_token(Cur, signer, v[1], v[2]), "set_payment_token")

SyncPoolTotal ==
    \E signer \in OwnerSigners, pool \in PoolInputs :
        OwnerCommit(sync_pool_total(Cur, signer, pool), "sync_pool_total")

WithdrawPool ==
    \E signer \in OwnerSigners, pool \in PoolInputs, amount \in WithdrawInputs :
        OwnerCommit(withdraw_pool(Cur, signer, pool, "T_OWNER", amount), "withdraw_pool")

CloseGame ==
    \E signer \in OwnerSigners, pool \in PoolInputs :
        OwnerCommit(close_game(Cur, signer, pool, "T_OWNER"), "close_game")

BecomeAgent ==
    \E agent \in AgentKeys, stake \in StakeInputs :
        UserCommit(become_agent(Cur, Env, agent, stake), "become_agent", "")

RedeemAgentStake ==
    \E agent \in AgentKeys :
        UserCommit(redeem_agent_stake(Cur, agent), "redeem_agent_stake", "")

AgentTok(agent) == IF agent = "A1" THEN "T_A1" ELSE "T_A2"
PlayerTok(player) == IF player = "P1" THEN "T_P1" ELSE "T_P2"

WithdrawCommission ==
    \E agent \in AgentKeys, pool \in PoolInputs :
        UserCommit(withdraw_commission(Cur, Env, agent, pool, AgentTok(agent)),
                   "withdraw_commission", "")

Play ==
    \E player \in Players, pool \in PoolInputs, bets \in PlayBets, card \in CardInputs :
        UserCommit(play(Cur, Env, player, PlayerTok(player), pool, s.vrf, bets, card),
                   "play", "")

RequestPlay ==
    \E h \in Handles, player \in Players, pool \in PoolInputs, bets \in PlayBets,
       card \in CardInputs :
        UserCommit(request_play(Cur, Env, h, player, PlayerTok(player), pool, s.vrf,
                                bets, card),
                   "request_play", h)

\* settle_play has no signer: anyone may submit it, naming any accounts.
SettlePlay ==
    \E h \in Handles, player \in Players, pool \in PoolInputs :
        UserCommit(settle_play(Cur, Env, h, player, PlayerTok(player), pool, s.vrf),
                   "settle_play", h)

\* ------------------------------------------------------------------ environment
\* The oracle publishes a new value in the account the game reads.
OracleUpdate ==
    \E v \in 0..MaxOracle :
        /\ steps < MaxSteps
        /\ v # vrf_data["VRF1"]
        /\ vrf_data' = [vrf_data EXCEPT !["VRF1"] = v]
        /\ steps' = steps + 1
        /\ last' = [op |-> "oracle_update", h |-> ""]
        /\ UNCHANGED <<s, open, pending, tok, lam, clock, admin_ops, eng, com, call>>

\* Time passes: k half-days, one slot each.
Tick ==
    \E k \in {1, 2} :
        /\ steps < MaxSteps
        /\ clock' = [unix_timestamp |-> clock.unix_timestamp + k * TickSeconds,
                     slot |-> clock.slot + k]
        /\ steps' = steps + 1
        /\ last' = [op |-> "tick", h |-> ""]
        /\ UNCHANGED <<s, open, pending, tok, lam, vrf_data, admin_ops, eng, com, call>>

Next ==
    \/ SetCommissionRate
    \/ SetStakeThreshold
    \/ SetMinBet
    \/ SetSymbolWeights
    \/ SetPayoutTriple
    \/ SetPayoutDouble
    \/ SetVrf
    \/ SetPaymentToken
    \/ SyncPoolTotal
    \/ WithdrawPool
    \/ CloseGame
    \/ BecomeAgent
    \/ RedeemAgentStake
    \/ WithdrawCommission
    \/ Play
    \/ RequestPlay
    \/ SettlePlay
    \/ OracleUpdate
    \/ Tick

Spec == Init /\ [][Next]_vars

\* ------------------------------------------------------------------ outcome engine
\* compute_total_payout run on its own, one loop iteration per step, from
\* every seed, bet vector and configuration of the sets below.
MaxSeed == 15
EngineSeeds == 0..MaxSeed
EngineBets == {B_ONE, <<100, 100, 100, 100, 100, 0>>}
EngineSpins == {0, 1, 5, 20}
EngineWeights == {W_DEFAULT, W_TRIGGER, W_MIXED}

EngineInit ==
    /\ s = W0.s
    /\ open = W0.open
    /\ pending = W0.pending
    /\ tok = W0.tok
    /\ lam = W0.lam
    /\ vrf_data = E0.vrf_data
    /\ clock = E0.clock
    /\ steps = 0
    /\ admin_ops = 0
    /\ last = [op |-> "initialize", h |-> ""]
    /\ com = ComIdle
    /\ call = CallIdle
    /\ \E seed \in EngineSeeds, bets \in EngineBets, m \in EngineSpins,
          wt \in EngineWeights :
         eng = EngineRun("loop", seed, bets,
                         [W0.s EXCEPT !.max_auto_spins = m, !.symbol_weights = wt])

\* One pass through the body of the loop (lib.rs 805-828).
EngineDraw ==
    /\ eng.pc = "loop"
    /\ ~eng.acc.done
    /\ eng' = [eng EXCEPT !.acc = SpinStep(eng.acc, eng.bets, eng.gs),
                          !.draws = @ + 1]
    /\ UNCHANGED <<s, open, pending, tok, lam, vrf_data, clock, steps, admin_ops, last, com,
                   call>>

\* The loop has been left: the function returns (lib.rs 829).
EngineReturn ==
    /\ eng.pc = "loop"
    /\ eng.acc.done
    /\ eng' = [eng EXCEPT !.pc = "returned",
                          !.result = compute_total_payout(eng.seed, eng.bets, eng.gs)]
    /\ UNCHANGED <<s, open, pending, tok, lam, vrf_data, clock, steps, admin_ops, last, com,
                   call>>

EngineNext == EngineDraw \/ EngineReturn

SpecEngine == EngineInit /\ [][EngineNext]_vars

\* ------------------------------------------------------------------ commission ledger
\* apply_agent_commission run on its own, as the tail of a settle_play, from
\* every balance, rate, stake and payout of the sets below.  The game is W2's
\* (agent A1 holds room card 10000) with a pool that can pay any payout.
ComBalances == {0, 5, 500, I64_MAX - 100, I64_MAX}
ComRates == {0, 10, 33, 100}
ComStakes == {100, 1000, 1005, U64_MAX}
ComPayouts == {0, 999, 1000, 1999, 2000, U64_MAX}
ComCards == {<<>>, <<10000>>, <<10001>>}

ComWorld(gs) ==
    [W2 EXCEPT !.s = [gs EXCEPT !.total_pool = U64_MAX],
               !.tok["POOL"].amount = U64_MAX,
               !.tok["T_P1"].amount = 0]

ComInit ==
    /\ s = W2.s
    /\ open = W2.open
    /\ pending = W2.pending
    /\ tok = W2.tok
    /\ lam = W2.lam
    /\ vrf_data = E0.vrf_data
    /\ clock = E0.clock
    /\ steps = 0
    /\ admin_ops = 0
    /\ last = [op |-> "initialize", h |-> ""]
    /\ eng = EngIdle
    /\ call = CallIdle
    /\ \E c \in ComBalances, rate \in ComRates, total_bet \in ComStakes,
          payout \in ComPayouts, card \in ComCards :
         com = ComCall("call",
                       [W2.s EXCEPT !.agents[1].commission = c,
                                    !.commission_rate = rate],
                       card, total_bet, payout)

\* The call itself (lib.rs 834-870).
ComApply ==
    /\ com.pc = "call"
    /\ com' = [com EXCEPT !.pc = "returned",
                          !.res = apply_agent_commission(com.gs, com.card,
                                                         com.total_bet, com.payout)]
    /\ UNCHANGED <<s, open, pending, tok, lam, vrf_data, clock, steps, admin_ops, last, eng,
                   call>>

\* The same call inside an instruction: payout, then commission, with `?`
\* on the result (lib.rs 458-482).
ComResolve ==
    /\ com.pc = "returned"
    /\ \E r \in {PayAndBook(ComWorld(com.gs), ComWorld(com.gs), "POOL", "T_P1",
                            com.card, com.total_bet, com.payout)} :
         com' = [com EXCEPT !.pc = "resolved",
                            !.tail = IF r.err = "Ok" THEN "committed"
                                     ELSE IF r.w = ComWorld(com.gs) THEN r.err
                                     ELSE "partial"]
    /\ UNCHANGED <<s, open, pending, tok, lam, vrf_data, clock, steps, admin_ops, last, eng,
                   call>>

ComNext == ComApply \/ ComResolve

SpecCommission == ComInit /\ [][ComNext]_vars

\* ------------------------------------------------------------------ sampler and draw payout
\* pick_symbol and compute_spin_payout run on their own: pick_symbol from
\* every seed up to MaxPickSeed (every residue of a 10,000 weight sum) and the
\* largest 16-bit seed, over well-formed and ill-formed weight tables;
\* compute_spin_payout from every draw of three symbols.
MaxPickSeed == 10050
PickSeeds == (0..MaxPickSeed) \cup {U16_MAX, U16_MAX + 1, U16_MAX + 5536}
W_NONE == <<0, 0, 0, 0, 0, 0>>
PickWeights == {W_DEFAULT, W_TRIGGER, W_MIXED, W_ZERO, W_SHORT, W_NONE}

B_EXAMPLE == <<1000, 0, 0, 0, 0, 0>>
B_ODD == <<0, 333, 0, 101, 150, 0>>
B_HUGE == <<U64_MAX, U64_MAX, 0, 0, 0, 0>>
B_TRIGGER == <<100, 0, 0, 0, 0, 100>>
SpinBets == {B_EXAMPLE, B_ODD, B_HUGE, B_TRIGGER}
SpinReels == {<<a, b, c>> : a, b, c \in 0..(SYMBOLS - 1)}
SpinTables == {<<PT_DEFAULT, PD_DEFAULT>>, <<PT_ALT, PD_ALT>>, <<PT_ALT, PD_DEFAULT>>}

DrawInit ==
    /\ s = W0.s
    /\ open = W0.open
    /\ pending = W0.pending
    /\ tok = W0.tok
    /\ lam = W0.lam
    /\ vrf_data = E0.vrf_data
    /\ clock = E0.clock
    /\ steps = 0
    /\ admin_ops = 0
    /\ last = [op |-> "initialize", h |-> ""]
    /\ eng = EngIdle
    /\ com = ComIdle
    /\ \/ \E seed \in PickSeeds, w \in PickWeights : call = PickCall("call", seed, w)
       \/ \E b \in SpinBets, reels \in SpinReels, t \in SpinTables :
            call = SpinCall("call", b, reels,
                            [W0.s EXCEPT !.payout_triple = t[1], !.payout_double = t[2]])

\* pick_symbol (lib.rs 748-763).
PickApply ==
    /\ call.pc = "call"
    /\ call.f = "pick_symbol"
    /\ call' = [call EXCEPT !.pc = "returned", !.res = pick_symbol(call.seed, call.w)]
    /\ UNCHANGED <<s, open, pending, tok, lam, vrf_data, clock, steps, admin_ops, last, eng,
                   com>>

\* compute_spin_payout (lib.rs 764-793).
SpinApply ==
    /\ call.pc = "call"
    /\ call.f = "compute_spin_payout"
    /\ call' = [call EXCEPT !.pc = "returned",
                            !.res = compute_spin_payout(call.b, call.reels, call.gs)]
    /\ UNCHANGED <<s, open, pending, tok, lam, vrf_data, clock, steps, admin_ops, last, eng,
                   com>>

DrawNext == PickApply \/ SpinApply

SpecDraw == DrawInit /\ [][DrawNext]_vars

\* ------------------------------------------------------------------ properties
\* Arguments a caller may pass, beyond those the transactions above succeed with.
AnyPlayerTok == {"T_P1", "T_P2"}
AnyPool == {"POOL", "POOL2", "T_P1"}

\* The value settle_play would read from the oracle now.
OracleNow == read_vrf_bytes(Env, s.vrf, s.vrf, s.vrf_result_offset)

\* settle_play on handle h with the accounts its record names.
SettleMatching(h) ==
    settle_play(Cur, Env, h, pending[h].player, pending[h].player_token_account,
                pending[h].pool_token_account, s.vrf)

\* C1: whenever the oracle value read at settle time equals the recorded
\* vrf_result_before, settle_play on that record fails -- with VrfNotUpdated
\* when the accounts passed are the record's -- whatever bet vector and room
\* card the record holds, and the failed settle leaves the pending records,
\* total_pool, nonce and the agents as they were.
C1_StaleSettleFails ==
    \A h \in Handles :
      (open /\ pending[h].init /\ OracleNow.err = "Ok"
            /\ OracleNow.out = pending[h].vrf_result_before) =>
        \A bets \in BetInputs, card \in CardInputs :
          LET p  == [pending[h] EXCEPT !.bets = bets,
                                       !.has_room_card = card # <<>>,
                                       !.room_card = IF card = <<>> THEN 0 ELSE card[1]]
              w  == [Cur EXCEPT !.pending[h] = p]
          IN  /\ \A player \in Players, pt \in AnyPlayerTok, pool \in AnyPool :
                   LET r == settle_play(w, Env, h, player, pt, pool, s.vrf)
                   IN  /\ r.err # "Ok"
                       /\ r.w.pending = w.pending
                       /\ r.w.s.total_pool = s.total_pool
                       /\ r.w.s.nonce = s.nonce
                       /\ r.w.s.agents = s.agents
              /\ settle_play(w, Env, h, p.player, p.player_token_account,
                             p.pool_token_account, s.vrf).err
                   = IF p.pool_token_account = s.pool_token_account
                     THEN "VrfNotUpdated" ELSE "InvalidPoolAccount"

\* C1 witness: a pending play whose oracle has not moved since the request,
\* and whose settlement is refused with VrfNotUpdated.
C1_Witness ==
    \E h \in Handles :
      /\ pending[h].init
      /\ OracleNow.err = "Ok"
      /\ OracleNow.out = pending[h].vrf_result_before
      /\ SettleMatching(h).err = "VrfNotUpdated"

\* C2: a successful settle_play deletes the record it settled, and while a
\* handle holds no record every settle_play on it fails because the record
\* does not exist; so each pending play is settled at most once.
C2_SettledAtMostOnce ==
    \A h \in Handles :
      /\ (last.op = "settle_play" /\ last.h = h) => ~pending[h].init
      /\ ~pending[h].init =>
           \A player \in Players, pt \in AnyPlayerTok, pool \in AnyPool :
             settle_play(Cur, Env, h, player, pt, pool, s.vrf).err
               \in {"AccountNotInitialized"}

\* C2 witness: a settle_play has just succeeded on a handle, its record is
\* gone, and a second settle_play on the handle is refused.
C2_Witness ==
    /\ last.op = "settle_play"
    /\ open
    /\ ~pending[last.h].init
    /\ settle_play(Cur, Env, last.h, "P1", "T_P1", s.pool_token_account, s.vrf).err
         = "AccountNotInitialized"

\* What settling the record p in world w and environment e, with the
\* record's accounts, would bring.
SettleOutcome(w, e, h) ==
    LET p     == w.pending[h]
        after == read_vrf_bytes(e, w.s.vrf, w.s.vrf, w.s.vrf_result_offset)
    IN  [ok     |-> settle_play(w, e, h, p.player, p.player_token_account,
                                p.pool_token_account, w.s.vrf).err = "Ok",
         seed   |-> SettleSeed(p, after.out),
         payout |-> compute_total_payout(SettleSeed(p, after.out), p.bets, w.s).total]

CurNext == [s |-> s', open |-> open', pending |-> pending', tok |-> tok', lam |-> lam']
EnvNext == [vrf_data |-> vrf_data', clock |-> clock']

\* C3: for one pending play, settling before or after a further oracle
\* update is no choice between payouts: if the play could be settled before
\* the update and can be settled after it, the payout is the same.
C3_TimingGivesNoChoice ==
    [][\A h \in Handles :
         (/\ last'.op = "oracle_update"
          /\ pending[h].init
          /\ SettleOutcome(Cur, Env, h).ok
          /\ SettleOutcome(CurNext, EnvNext, h).ok)
         => SettleOutcome(CurNext, EnvNext, h).payout
              = SettleOutcome(Cur, Env, h).payout]_vars

RECURSIVE SumCommission(_)
SumCommission(agents) ==
    IF agents = <<>> THEN 0 ELSE Head(agents).commission + SumCommission(Tail(agents))

PoolCovers(gs) == gs.total_pool >= SumCommission(gs.agents)

\* The operations C5 names: the plays, the two withdrawals and the agents'.
LedgerOps ==
    {"play", "request_play", "settle_play", "withdraw_pool", "withdraw_commission",
     "become_agent", "redeem_agent_stake"}

\* C5: total_pool is at least the sum of the agents' commission, and stays
\* so over every play, request_play, settle_play, withdraw_pool,
\* withdraw_commission and agent operation.
C5_PoolCoversCommission ==
    [][(last'.op \in LedgerOps /\ PoolCovers(s)) => PoolCovers(s')]_vars

\* C6: every agent's commission is >= 0 in every reachable state.
C6_CommissionNonNegative ==
    \A i \in 1..Len(s.agents) : s.agents[i].commission >= 0

\* C6 witness: an agent holding commission was the room card of a winning
\* play whose clawback exceeded the balance, which stopped at 0.
C6_Witness ==
    /\ steps = 1
    /\ last.op = "play"
    /\ s.nonce = 2
    /\ tok["T_P1"].amount > PlayerFunds
    /\ Len(s.agents) = 1
    /\ s.agents[1].room_card > 0
    /\ s.agents[1].commission = 0

\* C7: compute_total_payout makes at most max_auto_spins + 1 draws and has
\* left its loop once it has made that many; the multiplier a draw is
\* scaled by, the running multiplier and the multiplier returned are at
\* most 16.
C7_ChainBound ==
    /\ eng.draws <= eng.gs.max_auto_spins + 1
    /\ eng.draws = eng.gs.max_auto_spins + 1 => eng.acc.done
    /\ eng.acc.applied <= 16
    /\ eng.acc.mul <= 16
    /\ eng.pc = "returned" =>
         /\ eng.result.mul <= 16
         /\ eng.result.mul = eng.acc.mul
         /\ eng.result.doubles = eng.acc.doubles
         /\ eng.result.doubles + 1 = eng.draws

\* C7 witness: a run that returned after a full chain: the 16x multiplier
\* was reached and applied.
C7_Witness ==
    /\ eng.pc = "returned"
    /\ eng.result.err = "Ok"
    /\ eng.result.mul = 16
    /\ eng.acc.applied = 16
    /\ eng.draws = 5

\* What the committed state shows of a call that returned r.
SameLedger(r) ==
    /\ r.w.s.total_pool = s.total_pool
    /\ r.w.s.nonce = s.nonce
    /\ r.w.s.agents = s.agents
    /\ r.w.tok = tok
    /\ r.w.pending = pending

\* Bet vectors of the calls C8 looks at: one that validates, two that do not.
RejectBets == {B_ONE, <<100, 0, 0, 0, 0, 100>>, <<100, 99, 0, 0, 0, 0>>}

\* C8: a play or request_play naming a pool token account other than the
\* game's is rejected, and a play or request_play that is rejected, for
\* whatever reason, leaves total_pool, nonce, the agents' commission and
\* the token balances as they were and creates no pending record.
C8_RejectedPlayChangesNothing ==
    \A player \in Players, pool \in PoolInputs, bets \in RejectBets, card \in CardInputs :
      /\ \A pr \in {play(Cur, Env, player, PlayerTok(player), pool, s.vrf, bets, card)} :
           /\ pool # s.pool_token_account => pr.err # "Ok"
           /\ pr.err # "Ok" => SameLedger(pr)
      /\ \A h \in Handles :
           \A rr \in {request_play(Cur, Env, h, player, PlayerTok(player), pool,
                                   s.vrf, bets, card)} :
             /\ pool # s.pool_token_account => rr.err # "Ok"
             /\ rr.err # "Ok" => SameLedger(rr)

\* C8 witness: while a play is pending and an agent holds commission, a
\* request_play and a play that name the player's own token account as the
\* pool are refused with InvalidPoolAccount, where the same request with the
\* game's pool would be accepted.
C8_Witness ==
    /\ pending["H2"].init
    /\ \E i \in 1..Len(s.agents) : s.agents[i].commission > 0
    /\ request_play(Cur, Env, "H1", "P1", "T_P1", "T_P1", s.vrf, B_ONE, <<>>).err
         = "InvalidPoolAccount"
    /\ play(Cur, Env, "P1", "T_P1", "T_P1", s.vrf, B_ONE, <<>>).err
         = "InvalidPoolAccount"
    /\ request_play(Cur, Env, "H1", "P1", "T_P1", "POOL", s.vrf, B_ONE, <<>>).err = "Ok"

\* The condition C9 puts on a bet vector.
WellFormedBets(b, min_bet) ==
    /\ b[6] = 0
    /\ SumSeq(b) > 0
    /\ SumSeq(b) <= U64_MAX
    /\ \A i \in 1..5 : b[i] = 0 \/ b[i] >= min_bet

BetErrors == {"InvalidBetTable", "InvalidAmount", "BetBelowMinimum", "MathOverflow"}

\* C9: on an open game (and, for request_play, a free handle) a bet vector
\* passes validation exactly when slot 5 is 0, the total is > 0 and fits the
\* word, and each of slots 0..4 is 0 or >= min_bet; play and request_play
\* answer every other vector with InvalidBetTable, InvalidAmount,
\* BetBelowMinimum or MathOverflow and leave total_pool alone, and answer no
\* well-formed vector with one of the first three.
C9_BetValidation ==
    open =>
      \A bets \in BetInputs :
        /\ validate_bets(bets, s.min_bet) = "Ok" <=> WellFormedBets(bets, s.min_bet)
        /\ \A player \in Players, card \in {<<>>} :
             /\ \A pr \in {play(Cur, Env, player, PlayerTok(player),
                                 s.pool_token_account, s.vrf, bets, card)} :
                  IF WellFormedBets(bets, s.min_bet)
                  THEN pr.err \notin {"InvalidBetTable", "InvalidAmount", "BetBelowMinimum"}
                  ELSE pr.err \in BetErrors /\ pr.w.s.total_pool = s.total_pool
             /\ \A h \in {g \in Handles : ~pending[g].init} :
                  \A rr \in {request_play(Cur, Env, h, player, PlayerTok(player),
                                          s.pool_token_account, s.vrf, bets, card)} :
                    IF WellFormedBets(bets, s.min_bet)
                    THEN rr.err \notin {"InvalidBetTable", "InvalidAmount",
                                        "BetBelowMinimum"}
                    ELSE rr.err \in BetErrors /\ rr.w.s.total_pool = s.total_pool

\* C9 witness: with the minimum lowered to 1, a play staking 1 on slot 4 is
\* pending, while the vector staking on slot 5 is refused.
C9_Witness ==
    /\ s.min_bet = 1
    /\ \E h \in Handles :
         /\ pending[h].init
         /\ pending[h].bets = <<0, 0, 0, 0, 1, 0>>
    /\ play(Cur, Env, "P1", "T_P1", s.pool_token_account, s.vrf,
            <<100, 0, 0, 0, 0, 100>>, <<>>).err = "InvalidBetTable"

WellFormedWeights(wt) ==
    /\ Len(wt) = SYMBOLS
    /\ \A i \in 1..Len(wt) : wt[i] > 0
    /\ SumSeq(wt) = 10000

\* C10: symbol_weights is always six positive entries summing to 10,000;
\* the owner's set_symbol_weights answers any other table with
\* InvalidSymbolWeights and leaves the stored table alone; no step other
\* than a set_symbol_weights changes the table.
C10_WeightsWellFormed ==
    [][/\ WellFormedWeights(s.symbol_weights)
       /\ WellFormedWeights(s'.symbol_weights)
       /\ last'.op # "set_symbol_weights" => s'.symbol_weights = s.symbol_weights
       /\ \A wt \in WeightInputs \cup {W_DEFAULT} :
            \A r \in {set_symbol_weights(CurNext, "OWNER", wt)} :
              (open' /\ ~WellFormedWeights(wt)) =>
                /\ r.err = "InvalidSymbolWeights"
                /\ r.w.s.symbol_weights = s'.symbol_weights]_vars

\* C10 witness: the owner has replaced the table by another well-formed one.
C10_Witness ==
    /\ last.op = "set_symbol_weights"
    /\ s.symbol_weights = W_TRIGGER
    /\ set_symbol_weights(Cur, "OWNER", W_ZERO).err = "InvalidSymbolWeights"

\* The environment in which the oracle account the game reads holds v.
EnvWithOracle(v) == [Env EXCEPT !.vrf_data[s.vrf] = v]

\* The room card of record p names an agent apply_agent_commission accepts.
CardHeld(gs, p) ==
    \E i \in 1..Len(gs.agents) :
        gs.agents[i].is_active /\ gs.agents[i].room_card = p.room_card

\* C11: a pending play whose settle_play is refused with VrfNotUpdated is
\* still there to be settled: for every value the oracle may publish that
\* the game reads as different from the recorded vrf_result_before,
\* settle_play on the same
\* handle, with the player and token accounts of the record, succeeds and
\* deletes the record, provided the payout of that value is covered by the
\* pool (token balance and total_pool) and the recorded room card, if any,
\* is held by an active agent.
C11_RetryAfterUpdate ==
    \A h \in Handles :
      SettleMatching(h).err = "VrfNotUpdated" =>
        \A v \in 0..MaxOracle :
          LET p  == pending[h]
              after == read_vrf_bytes(EnvWithOracle(v), s.vrf, s.vrf, s.vrf_result_offset)
              cp == compute_total_payout(SettleSeed(p, after.out), p.bets, s)
          IN  (/\ after.err = "Ok"
               /\ after.out # p.vrf_result_before
               /\ cp.err = "Ok"
               /\ tok[p.pool_token_account].amount >= cp.total
               /\ s.total_pool >= cp.total
               /\ p.has_room_card => CardHeld(s, p))
              => \A r \in {settle_play(Cur, EnvWithOracle(v), h, p.player,
                                       p.player_token_account, p.pool_token_account,
                                       s.vrf)} :
                   /\ r.err = "Ok"
                   /\ r.w.pending[h] = NoPending

\* C11 witness: a settle_play was refused for a stale oracle, the oracle has
\* since published another value, and the retry goes through.
C11_Witness ==
    \E h \in Handles :
      /\ last.op = "oracle_update"
      /\ pending[h].init
      /\ pending[h].vrf_result_before # OracleNow.out
      /\ settle_play(Cur, [Env EXCEPT !.vrf_data[s.vrf] = pending[h].vrf_result_before],
                     h, pending[h].player, pending[h].player_token_account,
                     pending[h].pool_token_account, s.vrf).err = "VrfNotUpdated"
      /\ SettleMatching(h).err = "Ok"
      /\ SettleMatching(h).w.pending[h] = NoPending

\* The token accounts of the players.
PlayerToks == {PlayerTok(p) : p \in Players}

\* C12: a successful request_play moves exactly total_bet (the sum of the
\* recorded bets) from the player's token account to the pool, adds exactly
\* total_bet to total_pool and touches no other token account; a settle_play
\* that succeeds lowers no player's balance, and one that fails moves no
\* token at all: the stake is taken once, at request time.
C12_StakeTakenOnce ==
    [][/\ last'.op = "request_play" =>
            LET p  == pending'[last'.h]
                tb == p.total_bet
            IN  /\ ~pending[last'.h].init
                /\ tb = SumSeq(p.bets)
                /\ p.player_token_account # p.pool_token_account
                /\ tok'[p.player_token_account].amount
                     = tok[p.player_token_account].amount - tb
                /\ tok'[p.pool_token_account].amount
                     = tok[p.pool_token_account].amount + tb
                /\ \A a \in TokenAccounts \ {p.player_token_account, p.pool_token_account} :
                     tok'[a] = tok[a]
                /\ s'.total_pool = s.total_pool + tb
       /\ last'.op = "settle_play" =>
            \A a \in PlayerToks : tok'[a].amount >= tok[a].amount
       /\ \A h \in Handles, player \in Players, pt \in AnyPlayerTok, pool \in AnyPool :
            \A r \in {settle_play(CurNext, EnvNext, h, player, pt, pool, s'.vrf)} :
              /\ r.err # "Ok" => r.w.tok = tok'
              /\ \A a \in PlayerToks : r.w.tok[a].amount >= tok'[a].amount]_vars

\* C12 witness: P2 staked 100 by request_play and the play has been settled
\* with no payout: the balance is down by the stake, once.
C12_Witness ==
    /\ last.op = "settle_play"
    /\ ~pending[last.h].init
    /\ tok["T_P2"].amount = PlayerFunds - 100
    /\ s.nonce >= 1

\* C13: on an open game, a settle_play whose player, player token account
\* or pool token account differs from the one recorded in the pending play
\* is rejected and changes nothing (record, game state, balances); the
\* error is that of the first test of lib.rs 430-447 that fails, hence
\* PlayerMismatch, PlayerTokenMismatch or InvalidPoolAccount when the
\* respective account is the only one that differs.  A settle_play that
\* succeeds moves tokens only between the pool and the recorded player token
\* account, and what the pool pays is what that account receives.
C13_SettleBoundToRecord ==
    \A h \in Handles :
      (open /\ pending[h].init) =>
        LET p == pending[h]
        IN  \A player \in Players, pt \in AnyPlayerTok, pool \in AnyPool :
              \A r \in {settle_play(Cur, Env, h, player, pt, pool, s.vrf)} :
                /\ (player # p.player \/ pt # p.player_token_account
                      \/ pool # p.pool_token_account) =>
                     /\ r.err = (IF pool # s.pool_token_account THEN "InvalidPoolAccount"
                                 ELSE IF player # p.player THEN "PlayerMismatch"
                                 ELSE IF pt # p.player_token_account
                                      THEN "PlayerTokenMismatch"
                                 ELSE "InvalidPoolAccount")
                     /\ r.w = Cur
                /\ r.err = "Ok" =>
                     /\ pt = p.player_token_account
                     /\ \A a \in TokenAccounts \ {p.player_token_account,
                                                 p.pool_token_account} :
                          r.w.tok[a] = tok[a]
                     /\ r.w.tok[p.player_token_account].amount
                          - tok[p.player_token_account].amount
                        = tok[p.pool_token_account].amount
                          - r.w.tok[p.pool_token_account].amount

\* C13 witness: a pending play that its own accounts would settle now, with
\* a payout, is refused to another player, to another token account and
\* with another pool account.
C13_Witness ==
    \E h \in Handles :
      /\ pending[h].init
      /\ pending[h].player = "P2"
      /\ SettleMatching(h).err = "Ok"
      /\ SettleMatching(h).w.tok["T_P2"].amount > tok["T_P2"].amount
      /\ settle_play(Cur, Env, h, "P1", "T_P2", "POOL", s.vrf).err = "PlayerMismatch"
      /\ settle_play(Cur, Env, h, "P2", "T_P1", "POOL", s.vrf).err = "PlayerTokenMismatch"
      /\ settle_play(Cur, Env, h, "P2", "T_P2", "T_P1", s.vrf).err = "InvalidPoolAccount"

\* An active agent holds room card c; 0 is the value of "no card assigned"
\* (lib.rs 286, 832).
HoldsCard(gs, c) ==
    \E i \in 1..Len(gs.agents) :
        /\ gs.agents[i].is_active
        /\ gs.agents[i].room_card = c
        /\ gs.agents[i].room_card > 0

\* C14: a play that supplies a room card no active agent holds is rejected
\* and changes nothing -- with InvalidRoomCard whenever the same play
\* without a card would be accepted -- and a settle_play of a pending play
\* whose recorded room card no active agent holds is rejected and leaves the
\* pending records in place.
C14_UnknownCardAborts ==
    /\ \A player \in Players, card \in CardInputs \ {<<>>} :
         ~HoldsCard(s, card[1]) =>
           \A r \in {play(Cur, Env, player, PlayerTok(player), s.pool_token_account,
                          s.vrf, B_ONE, card)} :
             /\ r.err # "Ok"
             /\ r.w = Cur
             /\ play(Cur, Env, player, PlayerTok(player), s.pool_token_account,
                     s.vrf, B_ONE, <<>>).err = "Ok" => r.err = "InvalidRoomCard"
    /\ \A h \in Handles :
         (pending[h].init /\ pending[h].has_room_card
            /\ ~HoldsCard(s, pending[h].room_card)) =>
           /\ SettleMatching(h).err # "Ok"
           /\ SettleMatching(h).w.pending = pending

\* The payout play would compute for this player and bet vector now.
PlayPayout(player, bets) ==
    compute_total_payout(PlaySeed(Cur, Env, player, OracleNow.out), bets, s).total

\* C15: play answers InsufficientPool only when the payout P > 0 exceeds the
\* pooled funds with the stake just deposited counted in (the pool's token
\* balance before the call + total_bet, and total_pool + total_bet); a
\* payout those funds do not cover is never paid; and a rejected play keeps
\* no stake and changes nothing.
C15_PoolCountsStake ==
    \A player \in Players, bets \in PlayBets :
      \A r \in {play(Cur, Env, player, PlayerTok(player), s.pool_token_account,
                     s.vrf, bets, <<>>)} :
        LET P  == PlayPayout(player, bets)
            tb == SumSeq(bets)
            pool == s.pool_token_account
        IN  /\ r.err = "InsufficientPool" =>
                 /\ P > 0
                 /\ \/ P > tok[pool].amount + tb
                    \/ P > s.total_pool + tb
            /\ (P > 0 /\ (P > tok[pool].amount + tb \/ P > s.total_pool + tb)) =>
                 r.err # "Ok"
            /\ r.err # "Ok" => r.w = Cur

\* The call in com is attributed to the agent at position 1.
ComAttributed ==
    /\ com.pc \in {"returned", "resolved"}
    /\ com.card = <<com.gs.agents[1].room_card>>
    /\ com.gs.agents[1].is_active
    /\ com.gs.commission_rate > 0

\* C16: on a house win (payout < stake) with commission_rate > 0 the
\* attributed agent's commission grows by exactly
\* floor((stake - payout) * rate / 100) and nothing else in the game state
\* changes (500 at rate 10, stake 1000, payout 0 becomes 600); when the sum
\* does not fit the signed word the call returns MathOverflow, leaves the
\* state alone, and the instruction around it fails with that error,
\* committing nothing.
C16_HouseWinAccrues ==
    (ComAttributed /\ com.payout < com.total_bet) =>
      LET c     == com.gs.agents[1].commission
          delta == ((com.total_bet - com.payout) * com.gs.commission_rate) \div 100
      IN  /\ 100 * delta <= (com.total_bet - com.payout) * com.gs.commission_rate
          /\ (com.total_bet - com.payout) * com.gs.commission_rate < 100 * (delta + 1)
          /\ IF c + delta <= I64_MAX
             THEN /\ com.res.err = "Ok"
                  /\ com.res.s = [com.gs EXCEPT !.agents[1].commission = c + delta]
                  /\ com.pc = "resolved" => com.tail = "committed"
             ELSE /\ com.res.err = "MathOverflow"
                  /\ com.res.s = com.gs
                  /\ com.pc = "resolved" => com.tail = "MathOverflow"
          /\ (c = 500 /\ com.gs.commission_rate = 10 /\ com.total_bet = 1000
                /\ com.payout = 0) => com.res.s.agents[1].commission = 600

\* C16 witness: the example of the claim, resolved, and committed.
C16_Witness ==
    /\ com.pc = "resolved"
    /\ com.card = <<10000>>
    /\ com.gs.agents[1].commission = 500
    /\ com.gs.commission_rate = 10
    /\ com.total_bet = 1000
    /\ com.payout = 0
    /\ com.res.s.agents[1].commission = 600
    /\ com.tail = "committed"

\* C17: on a player win (payout > stake) with commission_rate > 0 the
\* attributed agent's commission becomes
\* max(0, commission - floor((payout - stake) * rate / 100)) and nothing else
\* in the game state changes (500 at rate 10, stake 1000, payout 2000
\* becomes 400); a commission that is 0 stays 0, whatever the clawback.  The
\* only plays this does not describe are those that do not resolve: with a
\* commission > 0 and a clawback that does not fit the signed word the call
\* returns MathOverflow and changes nothing.
C17_PlayerWinClawsBack ==
    (ComAttributed /\ com.payout > com.total_bet) =>
      LET c     == com.gs.agents[1].commission
          delta == ((com.payout - com.total_bet) * com.gs.commission_rate) \div 100
          after == IF c - delta > 0 THEN c - delta ELSE 0
      IN  /\ 100 * delta <= (com.payout - com.total_bet) * com.gs.commission_rate
          /\ (com.payout - com.total_bet) * com.gs.commission_rate < 100 * (delta + 1)
          /\ IF c = 0
             THEN com.res.err = "Ok" /\ com.res.s = com.gs
             ELSE IF delta <= I64_MAX
             THEN /\ com.res.err = "Ok"
                  /\ com.res.s = [com.gs EXCEPT !.agents[1].commission = after]
             ELSE /\ com.res.err = "MathOverflow"
                  /\ com.res.s = com.gs
          /\ com.res.s.agents[1].commission >= 0
          /\ (c = 500 /\ com.gs.commission_rate = 10 /\ com.total_bet = 1000
                /\ com.payout = 2000) => com.res.s.agents[1].commission = 400

\* C17 witness: a clawback of 100 met a commission of 5, which stopped at 0.
C17_Witness ==
    /\ com.pc = "resolved"
    /\ com.card = <<10000>>
    /\ com.gs.agents[1].commission = 5
    /\ com.gs.commission_rate = 10
    /\ com.total_bet = 1000
    /\ com.payout = 2000
    /\ com.res.err = "Ok"
    /\ com.res.s.agents[1].commission = 0
    /\ com.tail = "committed"

C19_WithdrawCommissionGuards ==
    \A agent \in AgentKeys, pool \in PoolInputs :
      \A r \in {withdraw_commission(Cur, Env, agent, pool, AgentTok(agent))} :
        LET i == AgentPosition(s, agent)
            a == s.agents[i]
            elapsed == clock.unix_timestamp - a.last_settlement
        IN  /\ r.err # "Ok" => r.w = Cur
            /\ r.err = "Ok" =>
                 /\ i # 0
                 /\ a.room_card > 0
                 /\ elapsed >= s.settlement_period
                 /\ a.commission > 0
                 /\ tok[pool].amount >= a.commission
                 /\ s.total_pool >= a.commission
            /\ (open /\ pool = s.pool_token_account) =>
                 r.err = (IF i = 0 THEN "AgentNotFound"
                          ELSE IF ~(a.room_card > 0) THEN "AgentInactive"
                          ELSE IF elapsed < s.settlement_period THEN "SettlementNotReady"
                          ELSE IF a.commission = 0 THEN "NoCommissionToWithdraw"
                          ELSE IF tok[pool].amount < a.commission
                                  \/ s.total_pool < a.commission
                               THEN "InsufficientPool"
                          ELSE "Ok")

\* C19 witness: half a settlement period after its last settlement, an agent
\* holding commission is refused; so is an identity that never registered.
C19_Witness ==
    /\ Len(s.agents) = 1
    /\ s.agents[1].commission > 0
    /\ clock.unix_timestamp - s.agents[1].last_settlement = TickSeconds
    /\ TickSeconds < s.settlement_period
    /\ withdraw_commission(Cur, Env, "A1", "POOL", "T_A1").err = "SettlementNotReady"
    /\ withdraw_commission(Cur, Env, "A2", "POOL", "T_A2").err = "AgentNotFound"

\* Stakes on either side of every threshold the game can have.
AnyStake == {999999, 1000000, 1000001}

\* C20: become_agent with stake_amount < stake_threshold fails with
\* StakeBelowThreshold, and with the agent set at MAX_AGENT_COUNT records it
\* fails with TooManyAgents (for a new identity as for a registered one);
\* either way nothing changes.  The agent set never holds more than
\* MAX_AGENT_COUNT records, and no two records carry the same identity.
C20_AgentCap ==
    /\ Len(s.agents) <= MAX_AGENT_COUNT
    /\ \A i, j \in 1..Len(s.agents) : i # j => s.agents[i].pubkey # s.agents[j].pubkey
    /\ open =>
         \A stake \in AnyStake :
           /\ \A agent \in AgentKeys :
                \A r \in {become_agent(Cur, Env, agent, stake)} :
                  /\ stake < s.stake_threshold =>
                       r.err = "StakeBelowThreshold" /\ r.w = Cur
                  /\ (stake >= s.stake_threshold /\ Len(s.agents) = MAX_AGENT_COUNT) =>
                       r.err = "TooManyAgents" /\ r.w = Cur
           /\ (stake >= s.stake_threshold /\ Len(s.agents) = MAX_AGENT_COUNT) =>
                \A r \in {become_agent(Cur, Env, "A3", stake)} :
                  r.err = "TooManyAgents" /\ r.w = Cur

\* C20 witness: the agent set is full after a registration, and a further
\* become_agent with a sufficient stake is refused.
C20_Witness ==
    /\ last.op = "become_agent"
    /\ Len(s.agents) = MAX_AGENT_COUNT
    /\ become_agent(Cur, Env, "A3", s.stake_threshold).err = "TooManyAgents"
    /\ become_agent(Cur, Env, "A1", s.stake_threshold - 1).err = "StakeBelowThreshold"

\* C21: a redeem_agent_stake that succeeds moves exactly the agent's
\* recorded stake (> 0) from the game account to the agent and leaves that
\* agent's record with stake = 0, room_card = 0 and commission = 0, its other
\* fields and everything else as they were; on an open game a redeem by an
\* identity that is not registered fails with AgentNotFound, one by an agent
\* whose stake is 0 fails with NoStakeToRedeem, and a redeem that fails
\* changes nothing -- so the agent that has just redeemed cannot redeem again.
C21_RedeemOnce ==
    [][/\ last'.op = "redeem_agent_stake" =>
            \E i \in 1..Len(s.agents) :
              LET a == s.agents[i]
              IN  /\ a.stake > 0
                  /\ lam' = [lam EXCEPT ![a.pubkey] = @ + a.stake,
                                        !["GAME"] = @ - a.stake]
                  /\ s' = [s EXCEPT !.agents[i].stake = 0,
                                    !.agents[i].room_card = 0,
                                    !.agents[i].commission = 0]
                  /\ tok' = tok
                  /\ pending' = pending
                  /\ redeem_agent_stake(CurNext, a.pubkey).err = "NoStakeToRedeem"
       /\ \A w \in {Cur, CurNext}, agent \in AgentKeys :
            \A r \in {redeem_agent_stake(w, agent)} :
              LET i == AgentPosition(w.s, agent)
              IN  /\ r.err # "Ok" => r.w = w
                  /\ (w.open /\ i = 0) => r.err = "AgentNotFound"
                  /\ (w.open /\ i # 0) =>
                       (w.s.agents[i].stake = 0 => r.err = "NoStakeToRedeem")]_vars

\* C21 witness: A1, which had accrued commission, has redeemed: it got its
\* stake back, holds no stake, card or commission, and a second redeem is
\* refused, as is one by A2, which never registered.
C21_Witness ==
    /\ last.op = "redeem_agent_stake"
    /\ s.nonce = 1
    /\ Len(s.agents) = 1
    /\ s.agents[1].stake = 0
    /\ s.agents[1].room_card = 0
    /\ s.agents[1].commission = 0
    /\ lam["A1"] = AgentLamports
    /\ redeem_agent_stake(Cur, "A1").err = "NoStakeToRedeem"
    /\ redeem_agent_stake(Cur, "A2").err = "AgentNotFound"

\* C22: a become_agent that succeeds for an identity already in the agent
\* list adds no record: it raises that record's stake by the amount paid in,
\* keeps its room_card when that is not 0 and otherwise assigns
\* next_room_card (which then moves on by 1), sets is_active and stake_time,
\* and leaves the record's commission and last_settlement, every other
\* record and the rest of the game state as they were.
C22_ReRegistration ==
    [][last'.op = "become_agent" =>
         \A agent \in AgentKeys :
           LET i      == AgentPosition(s, agent)
               amount == lam[agent] - lam'[agent]
           IN  (lam'[agent] # lam[agent] /\ i # 0) =>
                 LET a     == s.agents[i]
                     fresh == a.room_card = 0
                 IN  /\ Len(s'.agents) = Len(s.agents)
                     /\ amount >= s.stake_threshold
                     /\ lam'["GAME"] = lam["GAME"] + amount
                     /\ a.last_settlement >= 0
                     /\ s' = [s EXCEPT
                                !.next_room_card = IF fresh THEN @ + 1 ELSE @,
                                !.agents[i].stake = a.stake + amount,
                                !.agents[i].room_card =
                                    IF fresh THEN s.next_room_card ELSE a.room_card,
                                !.agents[i].is_active = TRUE,
                                !.agents[i].stake_time = clock.unix_timestamp]
                     /\ s'.agents[i].commission = a.commission
                     /\ s'.agents[i].last_settlement = a.last_settlement
                     /\ s'.agents[i].room_card > 0]_vars

\* C22 witness: A1, registered with card 10000 and holding commission 10,
\* has staked a second time, later: one record, twice the stake, same card,
\* same commission, last_settlement still that of its registration.
C22_Witness ==
    /\ last.op = "become_agent"
    /\ Len(s.agents) = 1
    /\ s.agents[1].pubkey = "A1"
    /\ s.agents[1].stake = 2000000
    /\ s.agents[1].room_card = 10000
    /\ s.agents[1].commission = 10
    /\ s.agents[1].stake_time > 0
    /\ s.agents[1].last_settlement = 0
    /\ s.next_room_card = 10001

\* C23: commission_rate <= 100 and min_bet > 0 in every reachable state; the
\* owner's set_commission_rate with a rate > 100 is refused with
\* InvalidCommissionRate and set_min_bet(0) with InvalidAmount, each leaving
\* everything as it was, while a rate <= 100 and a min_bet > 0 are stored as
\* given.
C23_ConfigRanges ==
    /\ s.commission_rate <= 100
    /\ s.min_bet > 0
    /\ open =>
         /\ \A rate \in RateInputs \cup {U8_MAX} :
              \A r \in {set_commission_rate(Cur, s.owner, rate)} :
                IF rate > 100
                THEN r.err = "InvalidCommissionRate" /\ r.w = Cur
                ELSE r.err = "Ok" /\ r.w.s = [s EXCEPT !.commission_rate = rate]
         /\ \A m \in MinBetInputs :
              \A r \in {set_min_bet(Cur, s.owner, m)} :
                IF m = 0
                THEN r.err = "InvalidAmount" /\ r.w = Cur
                ELSE r.err = "Ok" /\ r.w.s = [s EXCEPT !.min_bet = m]

\* C23 witness: the owner has set the largest rate allowed; the next larger
\* one is refused, and so is a minimum bet of 0.
C23_Witness ==
    /\ last.op = "set_commission_rate"
    /\ s.commission_rate = 100
    /\ set_commission_rate(Cur, "OWNER", 101).err = "InvalidCommissionRate"
    /\ set_min_bet(Cur, "OWNER", 0).err = "InvalidAmount"

\* Game states with the configuration of gs (weights, payout tables,
\* max_auto_spins) and other values in the fields a run should not read.
SameConfig(gs) ==
    {gs,
     [gs EXCEPT !.nonce = 7, !.total_pool = 999],
     [gs EXCEPT !.agents = W3.s.agents, !.commission_rate = 50,
                !.next_room_card = 10001],
     [gs EXCEPT !.min_bet = 1, !.vrf = "VRF2", !.vrf_result_offset = 32,
                !.pool_token_account = "POOL2", !.stake_threshold = 1]}

\* C24: a run of compute_total_payout leaves its arguments and the program
\* state as they are, and what it returns -- (total_payout, chain_count,
\* final_multiplier, last_symbols) or the error -- is what the loop, stepped
\* draw by draw, accumulated, and what a second run returns from the same
\* seed, bet vector and configuration, whatever the other fields of the game
\* state hold.
C24_EngineDeterministic ==
    [][/\ eng'.gs = eng.gs
       /\ eng'.seed = eng.seed
       /\ eng'.bets = eng.bets
       /\ UNCHANGED <<s, open, pending, tok, lam, vrf_data, clock>>
       /\ eng'.pc = "returned" =>
            /\ eng'.result = [err |-> eng'.acc.err, total |-> eng'.acc.total,
                              doubles |-> eng'.acc.doubles, mul |-> eng'.acc.mul,
                              last |-> eng'.acc.last]
            /\ \A gs2 \in SameConfig(eng.gs) :
                 compute_total_payout(eng.seed, eng.bets, gs2) = eng'.result]_vars

\* C24 witness: a run that chained at least once and paid has returned.
C24_Witness ==
    /\ eng.pc = "returned"
    /\ eng.result.err = "Ok"
    /\ eng.result.doubles >= 1
    /\ eng.result.total > 0
    /\ eng.draws = eng.result.doubles + 1

\* The contribution of symbol sym to the base payout of the draw reels, for
\* bets b under the tables of gs: floor(b[sym] * rate / 100).
DrawWin(b, reels, gs, sym) ==
    LET n    == Cardinality({i \in 1..3 : reels[i] = sym})
        rate == IF n = 3 THEN gs.payout_triple[sym + 1]
                ELSE IF n = 2 THEN gs.payout_double[sym + 1]
                ELSE 0
    IN  IF b[sym + 1] > 0 THEN (b[sym + 1] * rate) \div 100 ELSE 0

DrawBase(b, reels, gs) ==
    DrawWin(b, reels, gs, 0) + DrawWin(b, reels, gs, 1) + DrawWin(b, reels, gs, 2)
      + DrawWin(b, reels, gs, 3) + DrawWin(b, reels, gs, 4) + DrawWin(b, reels, gs, 5)

\* C25: compute_spin_payout returns the sum, over the symbols s with
\* bets[s] > 0, of floor(bets[s] * rate / 100), with rate = payout_triple[s]
\* when all three drawn symbols are s, payout_double[s] when exactly two are,
\* and 0 otherwise -- or MathOverflow when that sum does not fit the word;
\* bets [1000,0,0,0,0,0] on the draw [0,0,0] with payout_triple[0] = 220 pay
\* 2200; and for a bet vector with nothing on symbol 5 the draw [5,5,5] pays 0.
C25_DrawPayout ==
    (call.f = "compute_spin_payout" /\ call.pc = "returned") =>
      LET base == DrawBase(call.b, call.reels, call.gs)
      IN  /\ IF base <= U64_MAX
             THEN call.res = [err |-> "Ok", total |-> base]
             ELSE call.res.err = "MathOverflow"
          /\ (call.b = B_EXAMPLE /\ call.reels = <<0, 0, 0>>
                /\ call.gs.payout_triple[1] = 220) => call.res.total = 2200
          /\ (call.b[6] = 0 /\ call.reels = <<5, 5, 5>>) =>
               call.res = [err |-> "Ok", total |-> 0]

\* C25 witness: the example of the claim has been computed.
C25_Witness ==
    /\ call.f = "compute_spin_payout"
    /\ call.pc = "returned"
    /\ call.b = B_EXAMPLE
    /\ call.reels = <<0, 0, 0>>
    /\ call.gs.payout_triple = PT_DEFAULT
    /\ call.res = [err |-> "Ok", total |-> 2200]

\* C26: a pass through the loop of compute_total_payout that does not fail
\* is followed by another one exactly when one of its three symbols is the
\* trigger symbol 5, the chain count before it is below max_auto_spins and
\* the multiplier before it is below 16; then the multiplier is doubled and
\* the chain count incremented, and otherwise the loop is left with both
\* unchanged.  The draw itself is scaled by the multiplier it started with;
\* the draw [5,5,0] with a bet on symbol 0 only adds nothing to the total.
C26_ChainTrigger ==
    [][(eng.pc = "loop" /\ eng'.draws = eng.draws + 1 /\ eng'.acc.err = "Ok") =>
         LET a  == eng.acc
             b  == eng'.acc
             s1 == next_seed(a.cur, a.c)
             s2 == next_seed(s1, a.c + 1)
             s3 == next_seed(s2, a.c + 2)
             reels == <<pick_symbol(s1, eng.gs.symbol_weights).sym,
                        pick_symbol(s2, eng.gs.symbol_weights).sym,
                        pick_symbol(s3, eng.gs.symbol_weights).sym>>
             more == /\ \E i \in 1..3 : reels[i] = 5
                     /\ a.doubles < eng.gs.max_auto_spins
                     /\ a.mul < 16
         IN  /\ b.last = reels
             /\ b.applied = a.mul
             /\ (~b.done) <=> more
             /\ more => (b.mul = 2 * a.mul /\ b.doubles = a.doubles + 1)
             /\ ~more => (b.mul = a.mul /\ b.doubles = a.doubles)
             /\ (eng.bets = B_ONE /\ reels[1] = 5 /\ reels[2] = 5 /\ reels[3] = 0) =>
                  b.total = a.total]_vars

\* C26 witness: the first draw was [5,5,0] on a bet on symbol 0 only: it
\* paid nothing, was scaled by 1, and took the multiplier to 2 and the chain
\* count to 1 with the loop not left.
C26_Witness ==
    /\ eng.pc = "loop"
    /\ eng.draws = 1
    /\ eng.bets = B_ONE
    /\ eng.acc.last = <<5, 5, 0>>
    /\ eng.acc.applied = 1
    /\ eng.acc.mul = 2
    /\ eng.acc.doubles = 1
    /\ eng.acc.total = 0
    /\ ~eng.acc.done
\* w[1] + ... + w[i]
RECURSIVE CumWeight(_, _)
CumWeight(w, i) == IF i = 0 THEN 0 ELSE CumWeight(w, i - 1) + w[i]

\* C27: pick_symbol fails with InvalidSymbolWeights when the weights sum to
\* 0; otherwise, with r the low 16 bits of the seed reduced modulo the weight
\* sum, it returns the first index whose cumulative weight exceeds r: the
\* result is in 0..5, its cumulative weight exceeds r (so it was found by
\* the walk and is not the fallback), and no smaller index has one that does.
C27_PickFirstIndex ==
    (call.f = "pick_symbol" /\ call.pc = "returned") =>
      LET sum == CumWeight(call.w, SYMBOLS)
      IN  IF sum = 0 THEN call.res.err = "InvalidSymbolWeights"
          ELSE LET r == (call.seed % 65536) % sum
               IN  /\ call.res.err = "Ok"
                   /\ call.res.sym \in 0..5
                   /\ CumWeight(call.w, call.res.sym + 1) > r
                   /\ \A j \in 0..5 : j < call.res.sym => CumWeight(call.w, j + 1) <= r

\* C27 witness: under the default weights the seed with all 16 low bits set
\* (r = 65535 mod 10000 = 5535) picked symbol 3, whose cumulative weight
\* 6850 is the first above r.
C27_Witness ==
    /\ call.f = "pick_symbol"
    /\ call.pc = "returned"
    /\ call.w = W_DEFAULT
    /\ call.seed = U16_MAX
    /\ call.res = [err |-> "Ok", sym |-> 3]

\* Bets large enough for the payout arithmetic to leave the word: a quarter
\* and a half of the largest value on symbol 0, and a vector whose total
\* does not fit.
B_QUARTER == <<U64_MAX \div 4, 0, 0, 0, 0, 0>>
B_HALF == <<U64_MAX \div 2, 0, 0, 0, 0, 0>>
B_OVER == <<U64_MAX, 0, 0, 0, 1, 0>>
LargeBets == {B_QUARTER, B_HALF, B_OVER}

\* The world w after the token program, outside the game, has credited the
\* token account ptok with enough to stake a large bet and the game's pool
\* account with enough to pay a large win.
Funded(w, ptok) ==
    [w EXCEPT !.tok[ptok].amount = U64_MAX \div 2,
              !.tok[w.s.pool_token_account].amount = @ + U64_MAX \div 4]

\* The total payout of the chain of draws that starts from seed cur with
\* draw counter c, multiplier mul and chain count doubles, as an unbounded
\* integer.
RECURSIVE ExactChain(_, _, _, _, _, _)
ExactChain(cur, c, mul, doubles, bets, gs) ==
    LET s1 == next_seed(cur, c)
        s2 == next_seed(s1, c + 1)
        s3 == next_seed(s2, c + 2)
        reels == <<pick_symbol(s1, gs.symbol_weights).sym,
                   pick_symbol(s2, gs.symbol_weights).sym,
                   pick_symbol(s3, gs.symbol_weights).sym>>
    IN  DrawBase(bets, reels, gs) * mul
          + IF (\E i \in 1..3 : reels[i] = 5) /\ doubles < gs.max_auto_spins /\ mul < 16
            THEN ExactChain(s3, c + 3, mul * 2, doubles + 1, bets, gs)
            ELSE 0

ExactTotal(seed, bets, gs) == ExactChain(seed, 0, 1, 0, bets, gs)

\* C28: the payout arithmetic does not wrap.  For a player funded for a
\* large bet, play, request_play and the settle_play that follows either
\* fail with MathOverflow -- always when the bet total, or the exact total
\* payout of the chain of draws, does not fit the word -- or book exact
\* values: total_pool grows by the exact bet total and shrinks by the exact
\* total payout, and stays in range.  A call that fails with MathOverflow
\* returns the world it was given: pool, nonce, commission, token balances
\* and pending records are unchanged.
C28_NoWrap ==
    open =>
    \A player \in Players, bets \in LargeBets, card \in {<<>>, <<10000>>} :
      LET w   == Funded(Cur, PlayerTok(player))
          sum == bets[1] + bets[2] + bets[3] + bets[4] + bets[5] + bets[6]
          rv  == read_vrf_bytes(Env, s.vrf, s.vrf, s.vrf_result_offset)
          x   == ExactTotal(PlaySeed(w, Env, player, rv.out), bets, w.s)
      IN  /\ \A r \in {play(w, Env, player, PlayerTok(player), s.pool_token_account,
                            s.vrf, bets, card)} :
                /\ r.err = "MathOverflow" => r.w = w
                /\ sum > U64_MAX => r.err = "MathOverflow"
                /\ (sum <= U64_MAX /\ rv.err = "Ok" /\ x > U64_MAX
                      /\ w.tok[PlayerTok(player)].mint = w.tok[s.pool_token_account].mint)
                     => r.err = "MathOverflow"
                /\ r.err = "Ok" =>
                     /\ sum <= U64_MAX /\ x <= U64_MAX
                     /\ r.w.s.total_pool = w.s.total_pool + sum - x
                     /\ r.w.s.total_pool \in 0..U64_MAX
                     /\ r.w.tok[s.pool_token_account].amount
                          = w.tok[s.pool_token_account].amount + sum - x
          /\ \A h \in {"H1"} :
               \A rr \in {request_play(w, Env, h, player, PlayerTok(player),
                                       s.pool_token_account, s.vrf, bets, card)} :
                 /\ rr.err = "MathOverflow" => rr.w = w
                 /\ (sum > U64_MAX /\ ~pending[h].init) => rr.err = "MathOverflow"
                 /\ rr.err = "Ok" =>
                      /\ rr.w.s.total_pool = w.s.total_pool + sum
                      /\ rr.w.s.total_pool \in 0..U64_MAX
                      /\ \A v \in 0..MaxOracle :
                           \A st \in {settle_play(rr.w, EnvWithOracle(v), h, player,
                                                  PlayerTok(player),
                                                  s.pool_token_account, s.vrf)} :
                             LET after == read_vrf_bytes(EnvWithOracle(v), s.vrf, s.vrf,
                                                         s.vrf_result_offset)
                                 y == ExactTotal(SettleSeed(rr.w.pending[h], after.out),
                                                 bets, rr.w.s)
                             IN  /\ st.err = "MathOverflow" => st.w = rr.w
                                 /\ (after.out # rv.out /\ y > U64_MAX) =>
                                      st.err = "MathOverflow"
                                 /\ st.err = "Ok" =>
                                      /\ y <= U64_MAX
                                      /\ st.w.s.total_pool = rr.w.s.total_pool - y
                                      /\ st.w.s.total_pool \in 0..U64_MAX

\* A play of the funded player "P1" with bets and no room card.
LargePlay(bets) ==
    play(Funded(Cur, "T_P1"), Env, "P1", "T_P1", s.pool_token_account, s.vrf, bets, <<>>)

\* C28 witness: in one state a bet total that does not fit is refused with
\* MathOverflow, a large bet whose chain of draws pays more than the word
\* holds is refused with MathOverflow, right after a play was booked.
C28_Witness ==
    /\ open
    /\ last.op = "play"
    /\ LargePlay(B_OVER).err = "MathOverflow"
    /\ \E bets \in {B_QUARTER, B_HALF} :
         /\ LargePlay(bets).err = "MathOverflow"
         /\ LargePlay(bets).w = Funded(Cur, "T_P1")
         /\ ExactTotal(PlaySeed(Cur, Env, "P1", OracleNow.out), bets, s) > U64_MAX

\* The agent list "after" differs from "before" in at most one record, that
\* record has the room card "card", and only its commission differs.
CommissionFrame(before, after, card) ==
    /\ Len(after) = Len(before)
    /\ \A i \in 1..Len(before) :
         after[i] # before[i] =>
           /\ card # <<>>
           /\ before[i].room_card = card[1]
           /\ after[i] = [before[i] EXCEPT !.commission = after[i].commission]
           /\ \A j \in 1..Len(before) : j # i => after[j] = before[j]

\* The agent list "after" differs from "before" at most in the record of key.
OwnRecordFrame(before, after, key) ==
    /\ Len(after) = Len(before)
    /\ \A i \in 1..Len(before) :
         after[i] # before[i] =>
           /\ before[i].pubkey = key
           /\ after[i].pubkey = key
           /\ \A j \in 1..Len(before) : j # i => after[j] = before[j]

\* Stake and payout pairs: house win, payout equal to the stake, player win.
FrameOutcomes == {<<100, 0>>, <<100, 100>>, <<100, 220>>}

\* C29: a play or settle_play that succeeds changes at most the commission
\* of one agent, an agent whose room_card is the card supplied (the card of
\* the pending record for settle_play), and no agent at all when no card was
\* supplied or commission_rate is 0; apply_agent_commission, through which
\* they book, changes no agent either when the payout equals the stake;
\* withdraw_commission and redeem_agent_stake change no record but the
\* calling agent's.
C29_AgentFrame ==
    /\ \A player \in Players, bets \in PlayBets, card \in CardInputs :
         \A r \in {play(Cur, Env, player, PlayerTok(player), s.pool_token_account,
                        s.vrf, bets, card)} :
           r.err = "Ok" =>
             /\ CommissionFrame(s.agents, r.w.s.agents, card)
             /\ (card = <<>> \/ s.commission_rate = 0
                   \/ PlayPayout(player, bets) = bets_total(bets).total)
                  => r.w.s.agents = s.agents
    /\ \A h \in Handles, v \in 0..MaxOracle :
         \A r \in {settle_play(Cur, EnvWithOracle(v), h, pending[h].player,
                               pending[h].player_token_account,
                               pending[h].pool_token_account, s.vrf)} :
           r.err = "Ok" =>
             LET card == IF pending[h].has_room_card THEN <<pending[h].room_card>>
                         ELSE <<>>
             IN  /\ CommissionFrame(s.agents, r.w.s.agents, card)
                 /\ (card = <<>> \/ s.commission_rate = 0) => r.w.s.agents = s.agents
    /\ \A card \in CardInputs, o \in FrameOutcomes :
         \A r \in {apply_agent_commission(s, card, o[1], o[2])} :
           /\ CommissionFrame(s.agents, r.s.agents, card)
           /\ (card = <<>> \/ s.commission_rate = 0 \/ o[1] = o[2] \/ r.err # "Ok")
                => r.s = s
    /\ \A agent \in AgentKeys :
         /\ \A r \in {withdraw_commission(Cur, Env, agent, s.pool_token_account,
                                          AgentTok(agent))} :
              OwnRecordFrame(s.agents, r.w.s.agents, agent)
         /\ \A r \in {redeem_agent_stake(Cur, agent)} :
              OwnRecordFrame(s.agents, r.w.s.agents, agent)

\* C29 witness: two agents hold room cards and commission, and a play with
\* the second agent's card would change the second agent's commission and
\* nothing else in the list.
C29_Witness ==
    /\ open
    /\ Len(s.agents) = 2
    /\ s.agents[1].room_card = 10000
    /\ s.agents[2].room_card = 10001
    /\ s.agents[1].commission > 0
    /\ \E player \in Players :
         LET r == play(Cur, Env, player, PlayerTok(player), s.pool_token_account,
                       s.vrf, B_ONE, <<10001>>)
         IN  /\ r.err = "Ok"
             /\ r.w.s.agents[2].commission # s.agents[2].commission
             /\ r.w.s.agents[1] = s.agents[1]

\* settle_play on handle h of world w with the accounts its record names.
SettleOwn(w, e, h) ==
    settle_play(w, e, h, w.pending[h].player, w.pending[h].player_token_account,
                w.pending[h].pool_token_account, w.s.vrf)

\* C30: pending records are independent of each other.  A record changes
\* only by the request_play on its own handle, which creates it, and by the
\* settle_play on its own handle, which deletes it.  Before and after every
\* step, for distinct handles h and g: a request_play on h leaves g's record
\* as it is and succeeds only where h had no record; a settle_play on h
\* leaves g's record as it is, returns what it would return if g's record
\* did not exist, and, when it succeeds, leaves g's record to a settle_play
\* that returns what it would have returned first, or InsufficientPool; the
\* two orders of settling h and g, when all four settles succeed, end with
\* the same pool, balances and (empty) records.
C30_PendingIndependent ==
    [][/\ \A h \in Handles :
            pending'[h] # pending[h] =>
              \/ /\ last'.op = "request_play" /\ last'.h = h
                 /\ ~pending[h].init /\ pending'[h].init
              \/ /\ last'.op = "settle_play" /\ last'.h = h
                 /\ pending[h].init /\ pending'[h] = NoPending
       /\ \A x \in {<<Cur, Env>>, <<CurNext, EnvNext>>} :
            LET w == x[1]
                e == x[2]
            IN  \A h \in Handles : \A g \in Handles \ {h} :
                  /\ \A player \in Players :
                       \A rr \in {request_play(w, e, h, player, PlayerTok(player),
                                               w.s.pool_token_account, w.s.vrf,
                                               B_ONE, <<>>)} :
                         /\ rr.w.pending[g] = w.pending[g]
                         /\ rr.err = "Ok" =>
                              (~w.pending[h].init /\ rr.w.pending[h].init
                                 /\ rr.w.pending[h].player = player)
                  /\ \A v \in 0..MaxOracle :
                       LET ev == [e EXCEPT !.vrf_data[w.s.vrf] = v]
                       IN  \A sh \in {SettleOwn(w, ev, h)} :
                             /\ sh.w.pending[g] = w.pending[g]
                             /\ sh.err = SettleOwn([w EXCEPT !.pending[g] = NoPending],
                                                   ev, h).err
                             /\ (sh.err = "Ok" /\ w.pending[g].init) =>
                                  \A sg \in {SettleOwn(w, ev, g)},
                                     shg \in {SettleOwn(sh.w, ev, g)} :
                                    /\ sh.w.pending[h] = NoPending
                                    /\ shg.err \in {sg.err, "InsufficientPool"}
                                    /\ (sg.err = "Ok" /\ shg.err = "Ok") =>
                                         \A sgh \in {SettleOwn(sg.w, ev, h)} :
                                           sgh.err = "Ok" =>
                                             /\ sgh.w.pending = shg.w.pending
                                             /\ sgh.w.tok = shg.w.tok
                                             /\ sgh.w.s.total_pool = shg.w.s.total_pool
                                             /\ sgh.w.s.nonce = shg.w.s.nonce]_vars

\* C30 witness: two plays are pending at once, "H1" requested before "H2",
\* the oracle has published since, and "H2" can be settled first and "H1"
\* after it, as well as the other way round.
C30_Witness ==
    /\ pending["H1"].init
    /\ pending["H2"].init
    /\ pending["H1"].request_nonce < pending["H2"].request_nonce
    /\ last.op = "oracle_update"
    /\ SettleOwn(Cur, Env, "H2").err = "Ok"
    /\ SettleOwn(Cur, Env, "H2").w.pending["H1"] = pending["H1"]
    /\ SettleOwn(SettleOwn(Cur, Env, "H2").w, Env, "H1").err = "Ok"
    /\ SettleOwn(SettleOwn(Cur, Env, "H1").w, Env, "H2").err = "Ok"

\* The payout settle_play computes now for the record on handle g.
SettlePayout(g) ==
    compute_total_payout(SettleSeed(pending[g], OracleNow.out), pending[g].bets, s).total

C32_CardStaysValid ==
    \A h \in Handles :
      (pending[h].init /\ pending[h].has_room_card) =>
        \A v \in 0..MaxOracle :
          SettleOwn(Cur, EnvWithOracle(v), h).err # "InvalidRoomCard"

\* The administrative setters C33 names.
ConfigOps ==
    {"set_symbol_weights", "set_payout_triple", "set_payout_double",
     "set_commission_rate", "set_vrf"}

\* What a settle_play of the record on handle h of world w brings in
\* environment e: its result, the player's and the pool's balance, and the
\* agents' records after it.
SettleView(w, e, h) ==
    LET st == SettleOwn(w, e, h)
    IN  [err    |-> st.err,
         player |-> st.w.tok[w.pending[h].player_token_account].amount,
         pool   |-> st.w.s.total_pool,
         agents |-> st.w.s.agents]

\* C33: the outcome of settling a pending play is fixed by the record and by
\* the value of the oracle the game was configured with when the step
\* began: a set_symbol_weights, set_payout_triple, set_payout_double,
\* set_commission_rate or set_vrf committed while the play is pending leaves,
\* for every value v of that oracle, the result of settle_play, the payout
\* and the commission booked as they were before it -- in particular a
\* settle that was refused with VrfNotUpdated is still refused.
C33_SettleFixedAtRequest ==
    [][\A h \in Handles :
         (pending[h].init /\ last'.op \in ConfigOps) =>
           \A v \in 0..MaxOracle :
             SettleView(CurNext, [EnvNext EXCEPT !.vrf_data[s.vrf] = v], h)
               = SettleView(Cur, [Env EXCEPT !.vrf_data[s.vrf] = v], h)]_vars

\* C34: in every reachable state an agent whose room_card is 0 has
\* commission 0.
C34_NoCardNoCommission ==
    \A i \in 1..Len(s.agents) :
        s.agents[i].room_card = 0 => s.agents[i].commission = 0

\* The sum of the stakes recorded in an agent list.
RECURSIVE SumStake(_)
SumStake(agents) ==
    IF agents = <<>> THEN 0 ELSE Head(agents).stake + SumStake(Tail(agents))

\* C35: staked funds stay redeemable.  While the game exists and an agent
\* has stake > 0 the game account holds at least the sum of the recorded
\* stakes; and a step that is not that agent's own redeem_agent_stake leaves
\* the agent with a stake it can redeem: after the step redeem_agent_stake
\* by the agent succeeds and pays the stake recorded before the step (or
\* more, after a top-up).
C35_StakeRedeemable ==
    [][\A i \in 1..Len(s.agents) :
         (open /\ s.agents[i].stake > 0) =>
           /\ lam["GAME"] >= SumStake(s.agents)
           /\ ~(last'.op = "redeem_agent_stake" /\ s'.agents[i].stake = 0) =>
                \A r \in {redeem_agent_stake(CurNext, s.agents[i].pubkey)} :
                  /\ r.err = "Ok"
                  /\ r.w.lam[s.agents[i].pubkey]
                       >= lam'[s.agents[i].pubkey] + s.agents[i].stake]_vars

\* C36: the agent cap blocks only identities that are not registered: a
\* become_agent by an identity already in the agent list, staking the
\* threshold, never fails with TooManyAgents.
C36_CapSparesRegistered ==
    \A agent \in AgentKeys :
      (open /\ AgentPosition(s, agent) # 0) =>
        become_agent(Cur, Env, agent, s.stake_threshold).err # "TooManyAgents"

\* total_pool of world w equals the balance of the game's pool token account.
PoolInSync(w) == w.s.total_pool = w.tok[w.s.pool_token_account].amount

\* The token accounts a caller may name as the destination of a withdrawal:
\* its own, or any other account of the mint, the pool included.
WithdrawDests(own) == {own, s.pool_token_account}

\* C37: total_pool tracks the pool's token balance: from a state where the
\* two are equal, every successful play, request_play, settle_play,
\* withdraw_pool and withdraw_commission ends in a state where they are
\* equal, and a successful sync_pool_total makes them equal from any state.
C37_PoolTracksBalance ==
    open =>
      /\ \A r \in {sync_pool_total(Cur, "OWNER", s.pool_token_account)} :
           r.err = "Ok" => PoolInSync(r.w)
      /\ PoolInSync(Cur) =>
           /\ \A player \in Players, bets \in PlayBets, card \in CardInputs :
                /\ \A r \in {play(Cur, Env, player, PlayerTok(player),
                                  s.pool_token_account, s.vrf, bets, card)} :
                     r.err = "Ok" => PoolInSync(r.w)
                /\ \A h \in Handles :
                     \A r \in {request_play(Cur, Env, h, player, PlayerTok(player),
                                            s.pool_token_account, s.vrf, bets, card)} :
                       r.err = "Ok" => PoolInSync(r.w)
           /\ \A h \in Handles, v \in 0..MaxOracle :
                \A r \in {SettleOwn(Cur, EnvWithOracle(v), h)} :
                  r.err = "Ok" => PoolInSync(r.w)
           /\ \A amount \in WithdrawInputs, dest \in WithdrawDests("T_OWNER") :
                \A r \in {withdraw_pool(Cur, "OWNER", s.pool_token_account, dest, amount)} :
                  r.err = "Ok" => PoolInSync(r.w)
           /\ \A agent \in AgentKeys :
                \A dest \in WithdrawDests(AgentTok(agent)) :
                  \A r \in {withdraw_commission(Cur, Env, agent, s.pool_token_account,
                                                dest)} :
                    r.err = "Ok" => PoolInSync(r.w)


\* C38: a room card is never assigned twice.  In every reachable state, with
\* the game re-created by initialize if it was closed, a become_agent that
\* assigns a room card (to a new record, or to a record whose card is 0)
\* assigns one that no pending play carries, so a play requested under a
\* card is never settled to a later holder of the same code.
C38_CardNeverRecycled ==
    \A h \in Handles, agent \in AgentKeys :
        (pending[h].init /\ pending[h].has_room_card) =>
          LET w0 == IF open THEN Cur
                    ELSE initialize(Cur, "OWNER", "MINT", "POOL").w
              j  == AgentPosition(w0.s, agent)
          IN  \A r \in {become_agent(w0, Env, agent, 1000000)} :
                (/\ r.err = "Ok"
                 /\ (j = 0 \/ w0.s.agents[j].room_card = 0)) =>
                  r.w.s.agents[AgentPosition(r.w.s, agent)].room_card
                    # pending[h].room_card

\* Waits shorter than the settlement period of 86400 seconds.
ShortWaits == {0, TickSeconds, 86399}

AtClock(e, t) == [e EXCEPT !.clock.unix_timestamp = t]

\* The worlds an agent can bring about from w at environment e by its own
\* calls and by a play under its card: nothing, a top-up, a redeem, a redeem
\* followed by a new registration, and a play that books commission to it.
AfterDetour(w, e, agent) ==
    LET i    == AgentPosition(w.s, agent)
        card == IF i = 0 THEN 0 ELSE w.s.agents[i].room_card
        red  == redeem_agent_stake(w, agent).w
    IN  {w,
         become_agent(w, e, agent, 1000000).w,
         red,
         become_agent(red, e, agent, 1000000).w,
         play(w, e, "P1", "T_P1", "POOL", w.s.vrf, B_ONE, <<card>>).w}

\* C39: in every step, for every registered agent: last_settlement never
\* decreases; a successful withdraw_commission happens at least
\* settlement_period seconds after the agent's last_settlement and sets
\* last_settlement to the current time; a new registration sets it to the
\* current time; the agent's own redeem_agent_stake and become_agent leave
\* it alone; and after the step, at any time less than settlement_period
\* after last_settlement, withdraw_commission by that agent fails, also
\* after a top-up, a redeem, a redeem and re-registration, or a play under
\* its card.
C39_SettlementWait ==
    [][\A agent \in AgentKeys :
         LET i == AgentPosition(s', agent)
             j == AgentPosition(s, agent)
         IN  i # 0 =>
               /\ j # 0 => s'.agents[i].last_settlement >= s.agents[j].last_settlement
               /\ j = 0 => s'.agents[i].last_settlement = clock.unix_timestamp
               /\ (j # 0 /\ last'.op = "withdraw_commission"
                         /\ s'.agents[i] # s.agents[j]) =>
                    /\ clock.unix_timestamp
                         >= s.agents[j].last_settlement + s.settlement_period
                    /\ s'.agents[i].last_settlement = clock.unix_timestamp
               /\ (j # 0 /\ last'.op \in {"redeem_agent_stake", "become_agent"}) =>
                    s'.agents[i].last_settlement = s.agents[j].last_settlement
               /\ \A d \in ShortWaits :
                    \A e \in {AtClock(EnvNext, s'.agents[i].last_settlement + d)} :
                      \A w \in AfterDetour(CurNext, e, agent) :
                        withdraw_commission(w, e, agent, "POOL", AgentTok(agent)).err
                          # "Ok"]_vars

\* C39 witness: an agent has just withdrawn its commission; a play under its
\* card books new commission, which it is refused one second before the
\* settlement period is over and paid when it is over.
C39_Witness ==
    /\ open
    /\ last.op = "withdraw_commission"
    /\ Len(s.agents) = 1
    /\ s.agents[1].commission = 0
    /\ s.agents[1].last_settlement = clock.unix_timestamp
    /\ clock.unix_timestamp >= s.settlement_period
    /\ LET L  == s.agents[1].last_settlement
           w  == play(Cur, Env, "P1", "T_P1", "POOL", s.vrf, B_ONE,
                      <<s.agents[1].room_card>>).w
       IN  /\ w.s.agents[1].commission > 0
           /\ withdraw_commission(w, AtClock(Env, L + 86399), "A1", "POOL", "T_A1").err
                = "SettlementNotReady"
           /\ withdraw_commission(w, AtClock(Env, L + 86400), "A1", "POOL", "T_A1").err
                = "Ok"

\* The smaller of two numbers.
Min(a, b) == IF a <= b THEN a ELSE b

\* The running state a of compute_total_payout under configuration gs: the
\* multiplier is 2^doubles and the chain count is within both limits.
ChainShape(a, gs) ==
    /\ a.mul = 2 ^ a.doubles
    /\ a.doubles <= Min(gs.max_auto_spins, 4)

\* C40: in compute_total_payout the k-th draw (k = 0, 1, ...) is scaled by
\* 2^k and adds its base payout times 2^k to the total; the multiplier is
\* 2^chain_count before and after every draw and in the value returned,
\* where chain_count <= min(max_auto_spins, 4) and is the number of draws
\* made less one; and the doubling never fails: whenever the loop goes on,
\* twice the multiplier and the chain count plus one fit in a u8, and no
\* draw ends with MathOverflow.
C40_ScaledSum ==
    [][/\ ChainShape(eng.acc, eng.gs) /\ ChainShape(eng'.acc, eng'.gs)
       /\ eng'.draws = eng.draws + 1 =>
            /\ eng'.acc.applied = 2 ^ eng.draws
            /\ eng'.acc.err = "Ok"
            /\ eng'.acc.total
                 = eng.acc.total
                     + DrawBase(eng.bets, eng'.acc.last, eng.gs) * 2 ^ eng.draws
            /\ ~eng'.acc.done =>
                 /\ eng.acc.mul * 2 <= U8_MAX
                 /\ eng.acc.doubles + 1 <= U8_MAX
                 /\ eng'.acc.doubles = eng.draws + 1
            /\ eng'.acc.done => eng'.acc.doubles = eng.draws
       /\ eng'.pc = "returned" =>
            /\ eng'.result.err = "Ok"
            /\ eng'.result.total = eng.acc.total
            /\ eng'.result.mul = 2 ^ eng'.result.doubles
            /\ eng'.result.doubles <= Min(eng.gs.max_auto_spins, 4)
            /\ eng'.result.doubles + 1 = eng.draws]_vars

\* C40 witness: a run of three draws that returned with multiplier 4 and a
\* total to which the third draw, scaled by 4, added a win.
C40_Witness ==
    /\ eng.pc = "returned"
    /\ eng.result.err = "Ok"
    /\ eng.draws = 3
    /\ eng.result.doubles = 2
    /\ eng.result.mul = 4
    /\ eng.acc.applied = 4
    /\ DrawBase(eng.bets, eng.acc.last, eng.gs) > 0
    /\ eng.result.total >= 4 * DrawBase(eng.bets, eng.acc.last, eng.gs)

====
